---- MODULE Spec2Model ----
(***************************************************************************)
(* Pet Hub payroll: rate calculation, incentive formulas, shared-incentive *)
(* distribution from the branch daily sheet, and payroll totals.           *)
(*                                                                         *)
(* Units.  Money is held in integer centavos (1/100 peso).  A rate of the  *)
(* incentive engine is held in hundredths (rate x 100), so a peso-per-unit *)
(* rate of 50 is 5000 and a 10% fraction is 10.  Holidays and overtime     *)
(* hours are held in hundredths (1.30 holidays is 130).  Math.round(x*100) *)
(* /100 is modelled on exact rationals as round-half-up to the centavo.    *)
(***************************************************************************)
EXTENDS Integers, Sequences, FiniteSets, TLC

VARIABLES
  branches,      \* Branch rows: workingDaysPerMonth, workingHoursPerDay
  employees,     \* Employee rows
  exclusions,    \* IncentiveExclusion rows: set of <<employeeId, incentiveType>>
  configs,       \* persisted IncentiveConfig rows, by type
  sheets,        \* IncentiveSheet rows
  dailyInputs,   \* DailyIncentiveInput rows: set of [sheetId, date, type, value]
  payrolls,      \* PayrollPeriod rows
  incentives,    \* Incentive rows of each payroll, in insertion order
  deductions,    \* Deduction rows of each payroll, in insertion order
  cashAdvances,  \* CashAdvance rows
  lastOp,        \* history: the last completed request and its outcome
  call,          \* history: the last call of a pure calculation function
  requests       \* requests in flight: each one's position and local values

storeVars == <<branches, employees, exclusions, configs, sheets, dailyInputs,
               payrolls, incentives, deductions, cashAdvances>>
vars == <<branches, employees, exclusions, configs, sheets, dailyInputs,
          payrolls, incentives, deductions, cashAdvances, lastOp, call, requests>>

\* An absent string-valued field of a configuration object.
Undef == "undefined"

\* An optional number (undefined in a request body or argument list).
None == <<>>
Some(v) == <<v>>
\* a ?? b
Nullish(a, b) == IF a = None THEN b ELSE a[1]
\* a || b, on numbers: 0 and undefined are falsy
Falsy(a, b) == IF a = None \/ a = Some(0) THEN b ELSE a[1]

(***************************************************************************)
(* Bounds of the model.                                                    *)
(***************************************************************************)
MaxD == 31         \* branch working days per month range 1..MaxD
MaxH == 9          \* branch working hours per day range 1..MaxH
MaxCount == 10     \* procedure counts 0..MaxCount
MaxEligible == 4   \* pool divisors 0..MaxEligible
MaxRows == 2       \* child rows held by one payroll
MaxBatch == 1      \* entries in one batch request

(***************************************************************************)
(* Enumerations of the source.                                             *)
(***************************************************************************)
PositionType ==
  {"RESIDENT_VETERINARIAN", "JUNIOR_VETERINARIAN", "GROOMER",
   "GROOMER_VET_ASSISTANT", "VETERINARY_ASSISTANT", "VETERINARY_NURSE",
   "CLINIC_SECRETARY", "STAFF"}

IncentiveType ==
  {"CBC", "BLOOD_CHEM", "ULTRASOUND", "TEST_KITS", "XRAY", "SURGERY",
   "EMERGENCY", "CONFINEMENT_VET", "CONFINEMENT_ASST", "GROOMING", "NURSING"}

FormulaType == {"COUNT_MULTIPLY", "PERCENT"}

DEFAULT_WORKING_DAYS_PER_MONTH == 22
DEFAULT_WORKING_HOURS_PER_DAY == 8
ANNUAL_WORKING_DAYS == 313

(***************************************************************************)
(* Arithmetic helpers.                                                     *)
(***************************************************************************)
\* Math.round(n / d) for d > 0: the nearest integer, halves towards +infinity.
MathRound(n, d) == (2 * n + d) \div (2 * d)

RECURSIVE SumSeq(_, _)
SumSeq(s, f) == IF s = <<>> THEN 0 ELSE s[1][f] + SumSeq(Tail(s), f)

RECURSIVE SumSet(_)
SumSet(S) == IF S = {} THEN 0
             ELSE LET x == CHOOSE y \in S : TRUE IN x.value + SumSet(S \ {x})

roundToTwo_WholePeso(n, d) == 100 * MathRound(n, 100 * d)

\* roundToTwo / Math.round(x * 100) / 100, on an amount of n/d centavos.
roundToTwo(n, d) == MathRound(n, d)

(***************************************************************************)
(* RateCalculator (payrollCalculations.ts).  salary in centavos.           *)
(***************************************************************************)
usesAnnualFormula(position) == position # "RESIDENT_VETERINARIAN"

calculateMonthlyRates(monthlySalary, workingDaysPerMonth, workingHoursPerDay) ==
  LET ratePerDay == MathRound(monthlySalary, workingDaysPerMonth)
      ratePerHour == MathRound(ratePerDay, workingHoursPerDay)
  IN [ratePerDay |-> ratePerDay, ratePerHour |-> ratePerHour]

calculateAnnualRates_Monthly26(monthlySalary) ==
  LET ratePerDay == MathRound(monthlySalary, 26)
      ratePerHour == MathRound(ratePerDay, 8)
  IN [ratePerDay |-> ratePerDay, ratePerHour |-> ratePerHour]

calculateAnnualRates(monthlySalary) ==
  LET annualSalary == monthlySalary * 12
      ratePerDay == MathRound(annualSalary, ANNUAL_WORKING_DAYS)
      ratePerHour == MathRound(ratePerDay, 8)
  IN [ratePerDay |-> ratePerDay, ratePerHour |-> ratePerHour]

calculateEmployeeRates(monthlySalary, position, workingDaysPerMonth, workingHoursPerDay) ==
  IF usesAnnualFormula(position)
  THEN calculateAnnualRates(monthlySalary)
  ELSE calculateMonthlyRates(monthlySalary, workingDaysPerMonth, workingHoursPerDay)

(***************************************************************************)
(* IncentiveFormulaEngine (payrollCalculations.ts).  count is a plain      *)
(* number, inputValue is in centavos, rate in hundredths; the amount       *)
(* returned is in centavos.  numEligible is an optional number.            *)
(***************************************************************************)
calculateIncentive_PercentPooled(count, inputValue, rate, formulaType, numEligibleArg) ==
  LET numEligible == IF numEligibleArg # None /\ numEligibleArg[1] > 0
                     THEN numEligibleArg[1] ELSE 0
      divisor == IF numEligible > 1 THEN numEligible ELSE 1
  IN IF formulaType = "COUNT_MULTIPLY"
     THEN [amount |-> roundToTwo(count * rate, divisor), divided |-> numEligible > 1]
     ELSE IF formulaType = "PERCENT"
     THEN [amount |-> roundToTwo(inputValue * rate, 100 * divisor), divided |-> numEligible > 1]
     ELSE [amount |-> 0, divided |-> FALSE]

calculateIncentive(count, inputValue, rate, formulaType, numEligibleArg) ==
  LET numEligible == IF numEligibleArg # None /\ numEligibleArg[1] > 0
                     THEN numEligibleArg[1] ELSE 0
  IN IF formulaType = "COUNT_MULTIPLY"
     THEN LET totalPay == count * rate
          IN IF numEligible > 1
             THEN [amount |-> roundToTwo(totalPay, numEligible), divided |-> TRUE]
             ELSE [amount |-> roundToTwo(totalPay, 1), divided |-> FALSE]
     ELSE IF formulaType = "PERCENT"
     THEN [amount |-> roundToTwo(inputValue * rate, 100), divided |-> FALSE]
     ELSE [amount |-> 0, divided |-> FALSE]

(***************************************************************************)
(* DEFAULT_INCENTIVE_CONFIG (payrollCalculations.ts), keyed by type.       *)
(***************************************************************************)
Vets == {"RESIDENT_VETERINARIAN", "JUNIOR_VETERINARIAN"}
SurgeryPositions ==
  {"RESIDENT_VETERINARIAN", "JUNIOR_VETERINARIAN", "VETERINARY_ASSISTANT",
   "VETERINARY_NURSE", "STAFF", "GROOMER"}

ConfigItem(rate, formulaType, positions, isShared, divisionPositions) ==
  [rate |-> rate, formulaType |-> formulaType, positions |-> positions,
   isShared |-> isShared, divisionPositions |-> divisionPositions]

DEFAULT_INCENTIVE_CONFIG ==
  [t \in IncentiveType |->
     CASE t = "CBC"        -> ConfigItem(5000, "COUNT_MULTIPLY", Vets, FALSE, {})
       [] t = "BLOOD_CHEM" -> ConfigItem(10000, "COUNT_MULTIPLY", Vets, FALSE, {})
       [] t = "ULTRASOUND" -> ConfigItem(10000, "COUNT_MULTIPLY", Vets, FALSE, {})
       [] t = "TEST_KITS"  -> ConfigItem(5000, "COUNT_MULTIPLY", Vets, FALSE, {})
       [] t = "XRAY"       -> ConfigItem(10000, "COUNT_MULTIPLY", Vets, FALSE, {})
       [] t = "SURGERY"    -> ConfigItem(10, "PERCENT", SurgeryPositions, FALSE, {})
       [] t = "EMERGENCY"  -> ConfigItem(40, "PERCENT", SurgeryPositions, FALSE, {})
       [] t = "CONFINEMENT_VET" ->
            ConfigItem(5500, "COUNT_MULTIPLY", {"RESIDENT_VETERINARIAN"}, TRUE, Vets)
       [] t = "CONFINEMENT_ASST" ->
            ConfigItem(4500, "COUNT_MULTIPLY",
                       {"VETERINARY_ASSISTANT", "GROOMER_VET_ASSISTANT",
                        "VETERINARY_NURSE", "STAFF", "GROOMER"}, TRUE, {})
       [] t = "GROOMING" ->
            ConfigItem(7500, "COUNT_MULTIPLY",
                       {"GROOMER", "GROOMER_VET_ASSISTANT"}, TRUE, {})
       [] t = "NURSING" ->
            ConfigItem(8000, "COUNT_MULTIPLY",
                       {"VETERINARY_NURSE", "VETERINARY_ASSISTANT", "STAFF",
                        "GROOMER"}, TRUE, {})]

\* config?.isShared === true; an unknown type has no default config.
isSharedIncentiveType(type) ==
  type \in IncentiveType /\ DEFAULT_INCENTIVE_CONFIG[type].isShared

\* config?.divisionPositions || config?.positions || []
getDivisionPositionsForType(type) ==
  IF type \notin IncentiveType THEN {}
  ELSE IF DEFAULT_INCENTIVE_CONFIG[type].divisionPositions # {}
       THEN DEFAULT_INCENTIVE_CONFIG[type].divisionPositions
       ELSE DEFAULT_INCENTIVE_CONFIG[type].positions

(***************************************************************************)
(* SHARED_TYPES and DISTRIBUTION_CONFIG (incentive sheet routes), in the   *)
(* order of Object.entries.  A rule without divisionPositions holds {}     *)
(* there, a rule without sourceType holds Undef.                           *)
(***************************************************************************)
SHARED_TYPES == {"GROOMING", "SURGERY", "EMERGENCY", "CONFINEMENT"}

StaffPositions ==
  {"VETERINARY_ASSISTANT", "VETERINARY_NURSE", "CLINIC_SECRETARY", "STAFF",
   "GROOMER_VET_ASSISTANT"}

DistConfigItem(configKey, rate, eligiblePositions, divisionPositions, incentiveType, sourceType) ==
  [configKey |-> configKey, rate |-> rate, eligiblePositions |-> eligiblePositions,
   divisionPositions |-> divisionPositions, incentiveType |-> incentiveType,
   sourceType |-> sourceType]

DISTRIBUTION_CONFIG ==
  << DistConfigItem("GROOMING", 7500, {"GROOMER", "GROOMER_VET_ASSISTANT"},
                    {}, "GROOMING", Undef),
     DistConfigItem("SURGERY", 10000, StaffPositions, {}, "SURGERY", Undef),
     DistConfigItem("EMERGENCY", 12000, StaffPositions, {}, "EMERGENCY", Undef),
     DistConfigItem("CONFINEMENT_VET", 5500, {"RESIDENT_VETERINARIAN"},
                    Vets, "CONFINEMENT_VET", "CONFINEMENT"),
     DistConfigItem("CONFINEMENT_STAFF", 4500, StaffPositions, {},
                    "CONFINEMENT_ASST", "CONFINEMENT") >>

(***************************************************************************)
(* EligibilityResolver and calculateDistributions (incentive sheet         *)
(* routes).  roster maps the ids of the branch's active employees to their *)
(* rows; excl is the set of <<employeeId, incentiveType>> exclusions.      *)
(***************************************************************************)
RECURSIVE SortedSeq(_)
SortedSeq(S) == IF S = {} THEN <<>>
                ELSE LET m == CHOOSE x \in S : \A y \in S : x <= y
                     IN <<m>> \o SortedSeq(S \ {m})

\* exclusions.get(e.id)?.has(config.incentiveType)
isExcluded(excl, e, config) == <<e, config.incentiveType>> \in excl

receivers(config, roster, excl) ==
  {e \in DOMAIN roster :
     roster[e].position \in config.eligiblePositions /\ ~isExcluded(excl, e, config)}

divisionEmployees_IgnoreExclusions(config, roster, excl) ==
  LET divisionPositions == IF config.divisionPositions # {}
                           THEN config.divisionPositions
                           ELSE config.eligiblePositions
  IN {e \in DOMAIN roster : roster[e].position \in divisionPositions}

divisionEmployees(config, roster, excl) ==
  LET divisionPositions == IF config.divisionPositions # {}
                           THEN config.divisionPositions
                           ELSE config.eligiblePositions
  IN {e \in DOMAIN roster :
        roster[e].position \in divisionPositions /\ ~isExcluded(excl, e, config)}

\* config.sourceType || configKey
sourceTypeOf(config) ==
  IF config.sourceType # Undef THEN config.sourceType ELSE config.configKey

\* totalPay / (divisionCount > 0 ? divisionCount : 1), rounded to the centavo
perPersonAmount_NoDivision(total, rate, divisionCount) == roundToTwo(total * rate, 1)

perPersonAmount(total, rate, divisionCount) ==
  roundToTwo(total * rate, IF divisionCount > 0 THEN divisionCount ELSE 1)

\* The DistributionResult entries one rule contributes, receivers in id order.
ruleDistributions(config, totals, roster, excl) ==
  LET total == totals[sourceTypeOf(config)]
      recv == SortedSeq(receivers(config, roster, excl))
      divisionCount == Cardinality(divisionEmployees(config, roster, excl))
  IN IF total = 0 \/ recv = <<>> THEN <<>>
     ELSE [i \in 1..Len(recv) |->
             [employeeId |-> recv[i], incentiveType |-> config.incentiveType,
              total |-> total, rate |-> config.rate,
              numEligible |-> divisionCount,
              amount |-> perPersonAmount(total, config.rate, divisionCount)]]

RECURSIVE distributionsFrom(_, _, _, _)
distributionsFrom(k, totals, roster, excl) ==
  IF k > Len(DISTRIBUTION_CONFIG) THEN <<>>
  ELSE ruleDistributions(DISTRIBUTION_CONFIG[k], totals, roster, excl)
         \o distributionsFrom(k + 1, totals, roster, excl)

calculateDistributions(totals, roster, excl) == distributionsFrom(1, totals, roster, excl)

(***************************************************************************)
(* PayrollTotalsRecalculator.  p is a PayrollPeriod row, emp its employee. *)
(* Unrounded intermediate values are carried as numerators: gross over 100 *)
(* (holidays and overtime hours are hundredths), net over 300 (late        *)
(* minutes / 60).                                                          *)
(***************************************************************************)
\* calculatePayroll (payrollCalculations.ts)
calculatePayroll(input) ==
  LET basicPay == input.ratePerDay * input.totalDaysPresent
      holidayPay100 == input.holidays * input.ratePerDay
      overtimePay100 == input.ratePerHour * input.overtimeHours
      lateDeduction60 == input.ratePerHour * input.lateMinutes
      grossPay100 == basicPay * 100 + holidayPay100 + overtimePay100
                     + (input.totalIncentives + input.mealAllowance
                        + input.silPay + input.birthdayLeave) * 100
      netPay300 == grossPay100 * 3 - input.totalDeductions * 300 - lateDeduction60 * 5
  IN [basicPay |-> roundToTwo(basicPay, 1),
      holidayPay |-> roundToTwo(holidayPay100, 100),
      overtimePay |-> roundToTwo(overtimePay100, 100),
      lateDeduction |-> roundToTwo(lateDeduction60, 60),
      grossPay |-> roundToTwo(grossPay100, 100),
      netPay |-> roundToTwo(netPay300, 300)]

\* recalculatePayrollTotals (incentive.routes.ts): the row written for p.
recalculatePayrollTotals(p, emp, incRows, dedRows) ==
  LET totalIncentives == SumSeq(incRows, "amount")
      totalDeductions == SumSeq(dedRows, "amount")
      ratePerDay == emp.ratePerDay
      ratePerHour == emp.ratePerHour
      calculatedDaysPresent == p.workingDays - p.dayOff - p.absences
      basicPay == ratePerDay * calculatedDaysPresent
      holidayPay100 == p.holidays * ratePerDay
      overtimePay100 == ratePerHour * p.overtimeHours
      lateDeduction60 == ratePerHour * p.lateMinutes
      grossPay100 == basicPay * 100 + holidayPay100 + overtimePay100
                     + (totalIncentives + p.mealAllowance + p.silPay
                        + p.birthdayLeave) * 100
      netPay300 == grossPay100 * 3 - totalDeductions * 300 - lateDeduction60 * 5
  IN [p EXCEPT !.totalDaysPresent = calculatedDaysPresent,
               !.totalIncentives = totalIncentives,
               !.totalDeductions = totalDeductions,
               !.basicPay = roundToTwo(basicPay, 1),
               !.holidayPay = roundToTwo(holidayPay100, 100),
               !.overtimePay = roundToTwo(overtimePay100, 100),
               !.grossPay = roundToTwo(grossPay100, 100),
               !.netPay = roundToTwo(netPay300, 300)]

\* recalculatePayrollTotals of the incentive sheet routes (a second copy).
sheetRecalculatePayrollTotals(p, emp, incRows, dedRows) ==
  LET totalIncentives == SumSeq(incRows, "amount")
      totalDeductions == SumSeq(dedRows, "amount")
      calculatedDaysPresent == p.workingDays - p.dayOff - p.absences
      basicPay == emp.ratePerDay * calculatedDaysPresent
      holidayPay100 == p.holidays * emp.ratePerDay
      overtimePay100 == emp.ratePerHour * p.overtimeHours
      lateDeduction60 == emp.ratePerHour * p.lateMinutes
      grossPay100 == basicPay * 100 + holidayPay100 + overtimePay100
                     + (totalIncentives + p.mealAllowance + p.silPay
                        + p.birthdayLeave) * 100
      netPay300 == grossPay100 * 3 - totalDeductions * 300 - lateDeduction60 * 5
  IN [p EXCEPT !.totalDaysPresent = calculatedDaysPresent,
               !.totalIncentives = totalIncentives,
               !.totalDeductions = totalDeductions,
               !.basicPay = roundToTwo(basicPay, 1),
               !.holidayPay = roundToTwo(holidayPay100, 100),
               !.overtimePay = roundToTwo(overtimePay100, 100),
               !.grossPay = roundToTwo(grossPay100, 100),
               !.netPay = roundToTwo(netPay300, 300)]

(***************************************************************************)
(* Store rows.                                                             *)
(***************************************************************************)
\* employee create: rates from the position formula unless both custom
\* rates are given (manualRates records that, as history).
EmployeeRow(branchId, position, salary, D, H) ==
  LET rates == calculateEmployeeRates(salary, position, D, H)
  IN [branchId |-> branchId, position |-> position, salary |-> salary,
      ratePerDay |-> rates.ratePerDay, ratePerHour |-> rates.ratePerHour,
      isActive |-> TRUE, manualRates |-> FALSE, fixedDeductions |-> <<>>]

\* create-period: the PayrollPeriod row created for one employee.
PayrollPeriodRow(employeeId, startDate, endDate, workingDays) ==
  [employeeId |-> employeeId, startDate |-> startDate, endDate |-> endDate,
   workingDays |-> Falsy(workingDays, 15),
   totalDaysPresent |-> Falsy(workingDays, 15),
   dayOff |-> 0, absences |-> 0, holidays |-> 0, overtimeHours |-> 0,
   lateMinutes |-> 0, mealAllowance |-> 0, silPay |-> 0, birthdayLeave |-> 0,
   deductionDivisor |-> 2,
   basicPay |-> 0, holidayPay |-> 0, overtimePay |-> 0, totalIncentives |-> 0,
   totalDeductions |-> 0, grossPay |-> 0, netPay |-> 0, status |-> "DRAFT"]

SheetIds == 1..Len(sheets)
PayrollIds == 1..Len(payrolls)

\* prisma.employee.findMany({ where: { branchId, isActive: true } })
activeRoster(branchId) ==
  LET ids == {e \in DOMAIN employees :
                employees[e].branchId = branchId /\ employees[e].isActive}
  IN [e \in ids |-> employees[e]]

\* exclusions of the roster's employees
rosterExclusions(roster) == {x \in exclusions : x[1] \in DOMAIN roster}

\* totals[type] over SHARED_TYPES: the sum of the sheet's rows of that type
sheetTotals(sheetId) ==
  [t \in SHARED_TYPES |->
     SumSet({d \in dailyInputs : d.sheetId = sheetId /\ d.type = t})]

\* prisma.incentive.findFirst({ where: { payrollId, type } }): index or 0
RECURSIVE findFirstFrom(_, _, _)
findFirstFrom(rows, type, i) ==
  IF i > Len(rows) THEN 0
  ELSE IF rows[i].type = type THEN i ELSE findFirstFrom(rows, type, i + 1)

findFirst(rows, type) == findFirstFrom(rows, type, 1)

RemoveAt(rows, i) == [j \in 1..(Len(rows) - 1) |-> IF j < i THEN rows[j] ELSE rows[j + 1]]

(***************************************************************************)
(* Incentive sheet: get-or-create, save daily inputs, distribute.          *)
(***************************************************************************)
GetSheet(branchId, startDate, endDate) ==
  /\ ~\E s \in SheetIds : /\ sheets[s].branchId = branchId
                          /\ sheets[s].startDate = startDate
                          /\ sheets[s].endDate = endDate
  /\ sheets' = Append(sheets, [branchId |-> branchId, startDate |-> startDate,
                               endDate |-> endDate, isDistributed |-> FALSE])
  /\ lastOp' = [op |-> "getSheet", id |-> Len(sheets) + 1, again |-> FALSE, failed |-> FALSE]
  /\ UNCHANGED <<branches, employees, exclusions, configs, dailyInputs,
                 payrolls, incentives, deductions, cashAdvances, call, requests>>

saveInput_KeepZero(rows, sheetId, input) ==
  LET others == {d \in rows : ~(d.sheetId = sheetId /\ d.date = input.date
                                /\ d.type = input.type)}
  IN others \cup {[sheetId |-> sheetId, date |-> input.date,
                   type |-> input.type, value |-> input.value]}

\* one entry of the batch: deleteMany when the value is 0, upsert otherwise
saveInput(rows, sheetId, input) ==
  LET others == {d \in rows : ~(d.sheetId = sheetId /\ d.date = input.date
                                /\ d.type = input.type)}
  IN IF input.value = 0 THEN others
     ELSE others \cup {[sheetId |-> sheetId, date |-> input.date,
                        type |-> input.type, value |-> input.value]}

RECURSIVE saveInputs(_, _, _)
saveInputs(rows, sheetId, inputs) ==
  IF inputs = <<>> THEN rows
  ELSE saveInputs(saveInput(rows, sheetId, Head(inputs)), sheetId, Tail(inputs))

SaveInputs(sheetId, inputs) ==
  /\ sheetId \in SheetIds
  /\ dailyInputs' = saveInputs(dailyInputs, sheetId, inputs)
  /\ lastOp' = [op |-> "saveInputs", id |-> sheetId, again |-> FALSE, failed |-> FALSE]
  /\ UNCHANGED <<branches, employees, exclusions, configs, sheets,
                 payrolls, incentives, deductions, cashAdvances, call, requests>>

\* distribute: findFirst by (payrollId, type), then update or create
upsertDistributedIncentive_Stack(rows, dist) ==
  LET i == findFirst(rows, dist.incentiveType)
  IN IF i # 0
     THEN [rows EXCEPT ![i].count = dist.total, ![i].rate = dist.rate,
                       ![i].amount = rows[i].amount + dist.amount]
     ELSE Append(rows, [type |-> dist.incentiveType, count |-> dist.total,
                        inputValue |-> 0, rate |-> dist.rate,
                        amount |-> dist.amount])

upsertDistributedIncentive(rows, dist) ==
  LET i == findFirst(rows, dist.incentiveType)
      roundedAmount == roundToTwo(dist.amount, 1)
  IN IF i # 0
     THEN [rows EXCEPT ![i].count = dist.total, ![i].rate = dist.rate,
                       ![i].amount = roundedAmount]
     ELSE Append(rows, [type |-> dist.incentiveType, count |-> dist.total,
                        inputValue |-> 0, rate |-> dist.rate,
                        amount |-> roundedAmount])

\* payrollMap: employeeId -> the last matching payroll (0 when there is none)
payrollMapGet(matching, employeeId) ==
  LET mine == {p \in matching : payrolls[p].employeeId = employeeId}
  IN IF mine = {} THEN 0 ELSE CHOOSE p \in mine : \A q \in mine : q <= p

RECURSIVE applyDistributions(_, _, _)
applyDistributions(incs, dists, matching) ==
  IF dists = <<>> THEN incs
  ELSE LET dist == Head(dists)
           payroll == payrollMapGet(matching, dist.employeeId)
       IN IF payroll = 0
          THEN applyDistributions(incs, Tail(dists), matching)
          ELSE applyDistributions(
                 [incs EXCEPT ![payroll] = upsertDistributedIncentive(incs[payroll], dist)],
                 Tail(dists), matching)

matchingPayrolls_AnyDates(sheet, roster) ==
  {p \in PayrollIds : payrolls[p].employeeId \in DOMAIN roster}

\* the payroll periods of the roster with exactly the sheet's dates
matchingPayrolls(sheet, roster) ==
  {p \in PayrollIds : /\ payrolls[p].employeeId \in DOMAIN roster
                      /\ payrolls[p].startDate = sheet.startDate
                      /\ payrolls[p].endDate = sheet.endDate}

Distribute(sheetId) ==
  /\ sheetId \in SheetIds
  /\ LET sheet == sheets[sheetId]
         totals == sheetTotals(sheetId)
         roster == activeRoster(sheet.branchId)
         excl == rosterExclusions(roster)
         matching == matchingPayrolls(sheet, roster)
         distributions == calculateDistributions(totals, roster, excl)
         incs == applyDistributions(incentives, distributions, matching)
     IN /\ incentives' = incs
        /\ payrolls' = [p \in PayrollIds |->
                          IF p \in matching
                          THEN sheetRecalculatePayrollTotals(
                                 payrolls[p], employees[payrolls[p].employeeId],
                                 incs[p], deductions[p])
                          ELSE payrolls[p]]
        /\ sheets' = [sheets EXCEPT ![sheetId].isDistributed = TRUE]
  /\ lastOp' = [op |-> "distribute", id |-> sheetId,
                again |-> lastOp.op = "distribute" /\ lastOp.id = sheetId, failed |-> FALSE]
  /\ UNCHANGED <<branches, employees, exclusions, configs, dailyInputs,
                 deductions, cashAdvances, call, requests>>

(***************************************************************************)
(* Exclusion toggle (employee routes) and create-period (payroll routes).  *)
(***************************************************************************)
ToggleExclusion(id, incentiveType) ==
  /\ id \in DOMAIN employees
  /\ exclusions' = IF <<id, incentiveType>> \in exclusions
                   THEN exclusions \ {<<id, incentiveType>>}
                   ELSE exclusions \cup {<<id, incentiveType>>}
  /\ lastOp' = [op |-> "toggleExclusion", id |-> id, again |-> FALSE, failed |-> FALSE]
  /\ UNCHANGED <<branches, employees, configs, sheets, dailyInputs,
                 payrolls, incentives, deductions, cashAdvances, call, requests>>

RECURSIVE createPeriods_NoLookup(_, _, _, _, _)
createPeriods_NoLookup(rows, emps, startDate, endDate, workingDays) ==
  IF emps = <<>> THEN rows
  ELSE createPeriods_NoLookup(
         Append(rows, PayrollPeriodRow(Head(emps), startDate, endDate, workingDays)),
         Tail(emps), startDate, endDate, workingDays)

\* for each active employee of the branch: findFirst by (employee, dates),
\* create when there is none
RECURSIVE createPeriods(_, _, _, _, _)
createPeriods(rows, emps, startDate, endDate, workingDays) ==
  IF emps = <<>> THEN rows
  ELSE LET e == Head(emps)
           existing == \E i \in 1..Len(rows) : /\ rows[i].employeeId = e
                                               /\ rows[i].startDate = startDate
                                               /\ rows[i].endDate = endDate
       IN createPeriods(
            IF existing THEN rows
            ELSE Append(rows, PayrollPeriodRow(e, startDate, endDate, workingDays)),
            Tail(emps), startDate, endDate, workingDays)

CreatePeriod(branchId, startDate, endDate, workingDays) ==
  /\ LET roster == activeRoster(branchId)
         rows == createPeriods(payrolls, SortedSeq(DOMAIN roster),
                               startDate, endDate, workingDays)
     IN /\ payrolls' = rows
        /\ incentives' = incentives \o [i \in 1..(Len(rows) - Len(payrolls)) |-> <<>>]
        /\ deductions' = deductions \o [i \in 1..(Len(rows) - Len(payrolls)) |-> <<>>]
  /\ lastOp' = [op |-> "createPeriod", id |-> branchId,
                again |-> \A e \in DOMAIN activeRoster(branchId) :
                            \E p \in PayrollIds :
                              /\ payrolls[p].employeeId = e
                              /\ payrolls[p].startDate = startDate
                              /\ payrolls[p].endDate = endDate,
                failed |-> FALSE]
  /\ UNCHANGED <<branches, employees, exclusions, configs, sheets, dailyInputs,
                 cashAdvances, call, requests>>

(***************************************************************************)
(* Distribution specification: a branch roster drawn from a few rosters,   *)
(* one sheet, daily inputs, exclusions, payroll periods, distribution.     *)
(***************************************************************************)
MaxExclusions == 1   \* exclusion rows held at once

DefaultBranches == <<[workingDaysPerMonth |-> 22, workingHoursPerDay |-> 8],
                     [workingDaysPerMonth |-> 26, workingHoursPerDay |-> 8]>>

DistRosters ==
  { <<"RESIDENT_VETERINARIAN", "RESIDENT_VETERINARIAN",
      "JUNIOR_VETERINARIAN", "JUNIOR_VETERINARIAN">>,
    <<"RESIDENT_VETERINARIAN", "JUNIOR_VETERINARIAN",
      "JUNIOR_VETERINARIAN", "GROOMER_VET_ASSISTANT">>,
    <<"JUNIOR_VETERINARIAN", "GROOMER", "STAFF", "CLINIC_SECRETARY">> }

DistSalaries == {2200000}
DistExclusionTypes == {"CONFINEMENT_VET", "CONFINEMENT_ASST"}
DistInputTypes == {"CONFINEMENT", "GROOMING"}
DistInputValues == {0, 10}
DistInputDates == {1}
DistSheetPeriods == {<<1, 2>>}
DistPayrollPeriods == {<<1, 2>>, <<1, 3>>}

DailyInputBatches(dates, types, values) ==
  LET Entry == [date : dates, type : types, value : values]
  IN UNION {[1..n -> Entry] : n \in 1..MaxBatch}

InitDist ==
  /\ branches = DefaultBranches
  /\ \E r \in DistRosters, sal \in DistSalaries :
       employees = [e \in 1..Len(r) |-> EmployeeRow(1, r[e], sal, 22, 8)]
  /\ exclusions = {}
  /\ configs = <<>>
  /\ sheets = <<>>
  /\ dailyInputs = {}
  /\ payrolls = <<>>
  /\ incentives = <<>>
  /\ deductions = <<>>
  /\ cashAdvances = <<>>
  /\ lastOp = [op |-> "none", id |-> 0, again |-> FALSE, failed |-> FALSE]
  /\ call = [fn |-> "none"]
  /\ requests = <<>>

NextDist ==
  \/ \E d \in DistSheetPeriods : GetSheet(1, d[1], d[2])
  \/ \E s \in SheetIds :
       \E inputs \in DailyInputBatches(DistInputDates, DistInputTypes, DistInputValues) :
         SaveInputs(s, inputs)
  \/ \E e \in DOMAIN employees, t \in DistExclusionTypes :
       /\ (<<e, t>> \in exclusions \/ Cardinality(exclusions) < MaxExclusions)
       /\ ToggleExclusion(e, t)
  \/ \E d \in DistPayrollPeriods : CreatePeriod(1, d[1], d[2], None)
  \/ \E s \in SheetIds : Distribute(s)

SpecDist == InitDist /\ [][NextDist]_vars

(***************************************************************************)
(* Properties of distribution.                                             *)
(***************************************************************************)
\* q is n / d rounded to the nearest integer, halves upwards (d > 0)
IsRoundHalfUp(q, n, d) == 2 * d * q - d <= 2 * n /\ 2 * n < 2 * d * q + d

RowsOfType(rows, type) == {i \in 1..Len(rows) : rows[i].type = type}

DistRules == {DISTRIBUTION_CONFIG[k] : k \in 1..Len(DISTRIBUTION_CONFIG)}

\* C1: a distribution run that directly follows a run on the same sheet
\* leaves every Incentive row and every stored totalIncentives as the first
\* run left them (amounts are overwritten, never added).
C1_DistributeTwiceSame ==
  [][(lastOp'.op = "distribute" /\ lastOp'.again)
       => /\ incentives' = incentives
          /\ \A p \in PayrollIds :
               payrolls'[p].totalIncentives = payrolls[p].totalIncentives]_vars

C1_Witness ==
  /\ lastOp.op = "distribute" /\ lastOp.again
  /\ \E p \in PayrollIds :
       /\ incentives[p] # <<>>
       /\ payrolls[p].totalIncentives > 0
       /\ payrolls[p].totalIncentives = SumSeq(incentives[p], "amount")

\* C9: for every rule, roster and exclusion set the receivers are among the
\* employees counted for division; an employee excluded for the rule's
\* incentiveType is in neither set; and an exclusion for any other type
\* changes neither set of the rule.
C9_EligibilitySets ==
  \A b \in DOMAIN branches : \A config \in DistRules :
    LET roster == activeRoster(b)
        excl == rosterExclusions(roster)
        recv == receivers(config, roster, excl)
        div == divisionEmployees(config, roster, excl)
    IN /\ recv \subseteq div
       /\ (recv # {} => Cardinality(div) >= 1)
       /\ \A e \in DOMAIN roster :
            <<e, config.incentiveType>> \in excl => e \notin recv /\ e \notin div
       /\ \A e \in DOMAIN roster :
            \A t \in (IncentiveType \cup SHARED_TYPES) \ {config.incentiveType} :
              /\ receivers(config, roster, excl \cup {<<e, t>>})
                   = receivers(config, roster, excl \ {<<e, t>>})
              /\ divisionEmployees(config, roster, excl \cup {<<e, t>>})
                   = divisionEmployees(config, roster, excl \ {<<e, t>>})

\* an employee of a division position of CONFINEMENT_VET is excluded from it,
\* the rule still has receivers and a larger division pool, and the
\* CONFINEMENT_ASST rule has receivers
C9_Witness ==
  LET roster == activeRoster(1)
      excl == rosterExclusions(roster)
      vet == DISTRIBUTION_CONFIG[4]
      staff == DISTRIBUTION_CONFIG[5]
  IN /\ \E e \in DOMAIN roster :
          /\ <<e, "CONFINEMENT_VET">> \in excl
          /\ roster[e].position \in vet.divisionPositions
     /\ receivers(vet, roster, excl) # {}
     /\ receivers(vet, roster, excl) # divisionEmployees(vet, roster, excl)
     /\ receivers(staff, roster, excl) # {}
     /\ lastOp.op = "distribute"

\* C10: a distribution run writes, for each rule with a non-zero source
\* total and a receiver, to every receiver with a matching-period payroll
\* exactly one row of the rule's incentiveType with count = total, rate =
\* rule.rate and amount = round2(total x rate / divisionCount); it writes no
\* row of that type to employees only counted for division; with
\* CONFINEMENT 10 and 2 resident + 2 junior vets each resident gets 137.50.
C10_DistributionWrites ==
  [][(lastOp'.op = "distribute" /\ lastOp'.id \in SheetIds) =>
       LET sheet == sheets[lastOp'.id]
           totals == sheetTotals(lastOp'.id)
           roster == activeRoster(sheet.branchId)
           excl == rosterExclusions(roster)
           matching == matchingPayrolls(sheet, roster)
       IN \A config \in DistRules :
            LET total == totals[sourceTypeOf(config)]
                recv == receivers(config, roster, excl)
                div == divisionEmployees(config, roster, excl)
            IN (total # 0 /\ recv # {}) =>
                 /\ \A e \in recv :
                      LET p == payrollMapGet(matching, e)
                      IN p # 0 =>
                           /\ Cardinality(RowsOfType(incentives'[p], config.incentiveType)) = 1
                           /\ \A i \in RowsOfType(incentives'[p], config.incentiveType) :
                                /\ incentives'[p][i].count = total
                                /\ incentives'[p][i].rate = config.rate
                                /\ IsRoundHalfUp(incentives'[p][i].amount,
                                                 total * config.rate, Cardinality(div))
                                /\ (/\ config.incentiveType = "CONFINEMENT_VET"
                                    /\ total = 10 /\ Cardinality(div) = 4)
                                     => incentives'[p][i].amount = 13750
                 /\ \A e \in div \ recv : \A p \in PayrollIds :
                      payrolls[p].employeeId = e =>
                        [i \in RowsOfType(incentives'[p], config.incentiveType) |-> incentives'[p][i]]
                          = [i \in RowsOfType(incentives[p], config.incentiveType) |-> incentives[p][i]]
    ]_vars

\* the scenario: 2 resident and 2 junior vets, no exclusions, CONFINEMENT 10,
\* distributed; each resident vet holds 137.50 and no junior vet holds a row
C10_Witness ==
  /\ lastOp.op = "distribute"
  /\ exclusions = {}
  /\ sheetTotals(lastOp.id)["CONFINEMENT"] = 10
  /\ \E p1, p2, p3, p4 \in PayrollIds :
       /\ payrolls[p1].employeeId = 1 /\ payrolls[p2].employeeId = 2
       /\ payrolls[p3].employeeId = 3 /\ payrolls[p4].employeeId = 4
       /\ \A p \in {p1, p2, p3, p4} : /\ payrolls[p].startDate = sheets[lastOp.id].startDate
                                      /\ payrolls[p].endDate = sheets[lastOp.id].endDate
       /\ employees[1].position = "RESIDENT_VETERINARIAN"
       /\ employees[2].position = "RESIDENT_VETERINARIAN"
       /\ employees[3].position = "JUNIOR_VETERINARIAN"
       /\ employees[4].position = "JUNIOR_VETERINARIAN"
       /\ \A p \in {p1, p2} :
            \E i \in 1..Len(incentives[p]) :
              /\ incentives[p][i].type = "CONFINEMENT_VET"
              /\ incentives[p][i].amount = 13750
       /\ \A p \in {p3, p4} : RowsOfType(incentives[p], "CONFINEMENT_VET") = {}

(***************************************************************************)
(* Calculation specification: one call of a pure calculation function on   *)
(* inputs drawn from bounded sets; call holds the arguments, then the      *)
(* result.                                                                 *)
(***************************************************************************)
CalcSalaries == {0, 1, 1999999, 2500000, 4500000}
CalcInputValues == {0, 12345, 34550}
CalcRates == {0, 10, 40, 4500, 5000, 5500}
CalcFormulaTypes == FormulaType \cup {"DIVIDE"}

InitStore ==
  /\ branches = DefaultBranches
  /\ employees = <<>>
  /\ exclusions = {}
  /\ configs = <<>>
  /\ sheets = <<>>
  /\ dailyInputs = {}
  /\ payrolls = <<>>
  /\ incentives = <<>>
  /\ deductions = <<>>
  /\ cashAdvances = <<>>
  /\ lastOp = [op |-> "none", id |-> 0, again |-> FALSE, failed |-> FALSE]

EmployeeRatesCalls ==
  [fn : {"calculateEmployeeRates"}, salary : CalcSalaries,
   position : PositionType, D : 1..MaxD, H : 1..MaxH, done : {FALSE},
   result : {[ratePerDay |-> 0, ratePerHour |-> 0]}]

IncentiveCalls ==
  [fn : {"calculateIncentive"}, count : 0..MaxCount,
   inputValue : CalcInputValues, rate : CalcRates,
   formulaType : CalcFormulaTypes,
   numEligible : {None} \cup {Some(n) : n \in 0..MaxEligible},
   done : {FALSE}, result : {[amount |-> 0, divided |-> FALSE]}]

CalcTotals == [SHARED_TYPES -> {0, 7, 10}]
CalcRosters == {[e \in 1..Len(r) |-> [position |-> r[e]]] : r \in DistRosters}
CalcExclusions ==
  {{}} \cup {{<<e, t>>} : e \in 1..4,
                        t \in {"GROOMING", "CONFINEMENT_VET", "CONFINEMENT_ASST"}}

DistributionCalls ==
  [fn : {"calculateDistributions"}, totals : CalcTotals, roster : CalcRosters,
   excl : CalcExclusions, done : {FALSE}, result : {<<>>}]

InitCalc ==
  InitStore /\ requests = <<>>
  /\ call \in EmployeeRatesCalls \cup IncentiveCalls \cup DistributionCalls

CallEmployeeRates ==
  /\ call.fn = "calculateEmployeeRates" /\ ~call.done
  /\ call' = [call EXCEPT !.done = TRUE,
                          !.result = calculateEmployeeRates(
                                       call.salary, call.position, call.D, call.H)]
  /\ UNCHANGED <<storeVars, lastOp, requests>>

CallIncentive ==
  /\ call.fn = "calculateIncentive" /\ ~call.done
  /\ call' = [call EXCEPT !.done = TRUE,
                          !.result = calculateIncentive(
                                       call.count, call.inputValue, call.rate,
                                       call.formulaType, call.numEligible)]
  /\ UNCHANGED <<storeVars, lastOp, requests>>

CallDistributions ==
  /\ call.fn = "calculateDistributions" /\ ~call.done
  /\ call' = [call EXCEPT !.done = TRUE,
                          !.result = calculateDistributions(
                                       call.totals, call.roster, call.excl)]
  /\ UNCHANGED <<storeVars, lastOp, requests>>

NextCalc == CallEmployeeRates \/ CallIncentive \/ CallDistributions

SpecCalc == InitCalc /\ [][NextCalc]_vars

C8_IncentiveFormulas ==
  (call.fn = "calculateIncentive" /\ call.done) =>
    LET a == call.result.amount
        pooled == call.numEligible # None /\ call.numEligible[1] > 1
    IN /\ (call.formulaType = "COUNT_MULTIPLY" /\ ~pooled) => a = call.count * call.rate
       /\ (call.formulaType = "COUNT_MULTIPLY" /\ pooled) =>
            IsRoundHalfUp(a, call.count * call.rate, call.numEligible[1])
       /\ call.formulaType = "PERCENT" =>
            IsRoundHalfUp(a, call.inputValue * call.rate, 100)
       /\ call.formulaType \notin FormulaType => a = 0
       /\ (/\ call.formulaType = "COUNT_MULTIPLY" /\ call.count = 5
           /\ call.rate = 5000 /\ ~pooled) => a = 25000

C8_Witness ==
  /\ call.fn = "calculateIncentive" /\ call.done
  /\ call.formulaType = "PERCENT" /\ call.numEligible = Some(3)
  /\ call.inputValue = 12345 /\ call.rate = 10 /\ call.count = 7
  /\ call.result.amount = 1235

(***************************************************************************)
(* Employee and branch routes: create, update, recalculate-rates, soft     *)
(* delete, branch update.                                                  *)
(***************************************************************************)
\* branch?.workingDaysPerMonth ?? DEFAULT_WORKING_DAYS_PER_MONTH
branchD(branchId) ==
  IF branchId \in DOMAIN branches THEN branches[branchId].workingDaysPerMonth
  ELSE DEFAULT_WORKING_DAYS_PER_MONTH

branchH(branchId) ==
  IF branchId \in DOMAIN branches THEN branches[branchId].workingHoursPerDay
  ELSE DEFAULT_WORKING_HOURS_PER_DAY

\* custom: None, or Some of the pair <<ratePerDay, ratePerHour>> of a request
\* that gives both custom rates
CreateEmployee(branchId, position, salary, custom) ==
  /\ branchId \in DOMAIN branches
  /\ LET row == EmployeeRow(branchId, position, salary,
                            branchD(branchId), branchH(branchId))
     IN employees' = Append(employees,
                       IF custom # None
                       THEN [row EXCEPT !.ratePerDay = custom[1][1],
                                        !.ratePerHour = custom[1][2],
                                        !.manualRates = TRUE]
                       ELSE row)
  /\ lastOp' = [op |-> "createEmployee", id |-> Len(employees) + 1, again |-> FALSE, failed |-> FALSE]
  /\ UNCHANGED <<branches, exclusions, configs, sheets, dailyInputs, payrolls,
                 incentives, deductions, cashAdvances, call, requests>>

\* req: [branchId, position, salary, custom, recalculateRates, isActive];
\* branchId 0, position Undef, salary None, custom None and isActive Undef
\* stand for fields the request leaves out
updateEmployee(existing, req) ==
  LET targetBranchId == IF req.branchId # 0 THEN req.branchId ELSE existing.branchId
      workingDaysPerMonth == branchD(targetBranchId)
      workingHoursPerDay == branchH(targetBranchId)
      effectivePosition == IF req.position # Undef THEN req.position
                           ELSE existing.position
      base == [existing EXCEPT
                 !.branchId = targetBranchId,
                 !.position = effectivePosition,
                 !.salary = Nullish(req.salary, existing.salary),
                 !.isActive = IF req.isActive = Undef THEN existing.isActive
                              ELSE req.isActive = "true"]
  IN IF req.custom # None
     THEN [base EXCEPT !.ratePerDay = req.custom[1][1],
                       !.ratePerHour = req.custom[1][2],
                       !.manualRates = TRUE]
     ELSE IF req.recalculateRates /\ req.salary # None
     THEN LET rates == calculateEmployeeRates(req.salary[1], effectivePosition,
                                              workingDaysPerMonth, workingHoursPerDay)
          IN [base EXCEPT !.ratePerDay = rates.ratePerDay,
                          !.ratePerHour = rates.ratePerHour,
                          !.manualRates = FALSE]
     ELSE base

UpdateEmployee(id, req) ==
  /\ id \in DOMAIN employees
  /\ employees' = [employees EXCEPT ![id] = updateEmployee(employees[id], req)]
  /\ lastOp' = [op |-> "updateEmployee", id |-> id, again |-> FALSE, failed |-> FALSE]
  /\ UNCHANGED <<branches, exclusions, configs, sheets, dailyInputs, payrolls,
                 incentives, deductions, cashAdvances, call, requests>>

RecalculateRates(id) ==
  /\ id \in DOMAIN employees
  /\ LET employee == employees[id]
         rates == calculateEmployeeRates(employee.salary, employee.position,
                                         branchD(employee.branchId),
                                         branchH(employee.branchId))
     IN employees' = [employees EXCEPT ![id].ratePerDay = rates.ratePerDay,
                                       ![id].ratePerHour = rates.ratePerHour,
                                       ![id].manualRates = FALSE]
  /\ lastOp' = [op |-> "recalculateRates", id |-> id, again |-> FALSE, failed |-> FALSE]
  /\ UNCHANGED <<branches, exclusions, configs, sheets, dailyInputs, payrolls,
                 incentives, deductions, cashAdvances, call, requests>>

DeleteEmployee(id) ==
  /\ id \in DOMAIN employees
  /\ employees' = [employees EXCEPT ![id].isActive = FALSE]
  /\ lastOp' = [op |-> "deleteEmployee", id |-> id, again |-> FALSE, failed |-> FALSE]
  /\ UNCHANGED <<branches, exclusions, configs, sheets, dailyInputs, payrolls,
                 incentives, deductions, cashAdvances, call, requests>>

\* branch update, the rate loop: the row of one employee after the update of
\* branch id to D / H when D or H changed
branchRecalculated_IncludingInactive(employee, id, newWorkingDaysPerMonth, newWorkingHoursPerDay) ==
  IF employee.branchId = id /\ ~usesAnnualFormula(employee.position)
  THEN LET rates == calculateEmployeeRates(employee.salary, employee.position,
                                           newWorkingDaysPerMonth, newWorkingHoursPerDay)
       IN [employee EXCEPT !.ratePerDay = rates.ratePerDay,
                           !.ratePerHour = rates.ratePerHour,
                           !.manualRates = FALSE]
  ELSE employee

branchRecalculated(employee, id, newWorkingDaysPerMonth, newWorkingHoursPerDay) ==
  IF employee.branchId = id /\ employee.isActive
     /\ ~usesAnnualFormula(employee.position)
  THEN LET rates == calculateEmployeeRates(employee.salary, employee.position,
                                           newWorkingDaysPerMonth, newWorkingHoursPerDay)
       IN [employee EXCEPT !.ratePerDay = rates.ratePerDay,
                           !.ratePerHour = rates.ratePerHour,
                           !.manualRates = FALSE]
  ELSE employee

UpdateBranch(id, workingDaysPerMonth, workingHoursPerDay) ==
  /\ id \in DOMAIN branches
  /\ LET currentBranch == branches[id]
         newWorkingDaysPerMonth ==
           Nullish(workingDaysPerMonth, currentBranch.workingDaysPerMonth)
         newWorkingHoursPerDay ==
           Nullish(workingHoursPerDay, currentBranch.workingHoursPerDay)
         rateSettingsChanged ==
           \/ newWorkingDaysPerMonth # currentBranch.workingDaysPerMonth
           \/ newWorkingHoursPerDay # currentBranch.workingHoursPerDay
     IN /\ branches' = [branches EXCEPT
                          ![id].workingDaysPerMonth = newWorkingDaysPerMonth,
                          ![id].workingHoursPerDay = newWorkingHoursPerDay]
        /\ employees' = IF rateSettingsChanged
                        THEN [e \in DOMAIN employees |->
                                branchRecalculated(employees[e], id,
                                                   newWorkingDaysPerMonth,
                                                   newWorkingHoursPerDay)]
                        ELSE employees
  /\ lastOp' = [op |-> "updateBranch", id |-> id, again |-> FALSE, failed |-> FALSE]
  /\ UNCHANGED <<exclusions, configs, sheets, dailyInputs, payrolls,
                 incentives, deductions, cashAdvances, call, requests>>

(***************************************************************************)
(* Incentive routes: upsert, bulk save, delete.                            *)
(***************************************************************************)
\* the persisted config of the type, else the default one
configFor(type) ==
  IF type \in DOMAIN configs THEN configs[type] ELSE DEFAULT_INCENTIVE_CONFIG[type]

\* the row of payroll payrollId after recalculatePayrollTotals over incs / deds
recalculated(payrollId, incs, deds) ==
  recalculatePayrollTotals(payrolls[payrollId],
                           employees[payrolls[payrollId].employeeId],
                           incs[payrollId], deds[payrollId])

\* count, inputValue and rate are optional numbers
upsertIncentive(rows, type, count, inputValue, rate) ==
  LET config == configFor(type)
      effectiveRate == Nullish(rate, config.rate)
      result == calculateIncentive(Falsy(count, 0), Falsy(inputValue, 0),
                                   effectiveRate, config.formulaType, None)
      i == findFirst(rows, type)
  IN IF i # 0
     THEN [rows EXCEPT ![i].count = Nullish(count, rows[i].count),
                       ![i].inputValue = Nullish(inputValue, rows[i].inputValue),
                       ![i].rate = effectiveRate,
                       ![i].amount = result.amount]
     ELSE Append(rows, [type |-> type, count |-> Falsy(count, 0),
                        inputValue |-> Falsy(inputValue, 0),
                        rate |-> effectiveRate, amount |-> result.amount])

UpsertIncentive(payrollId, type, count, inputValue, rate) ==
  /\ payrollId \in PayrollIds
  /\ LET incs == [incentives EXCEPT ![payrollId] =
                    upsertIncentive(incentives[payrollId], type, count,
                                    inputValue, rate)]
     IN /\ incentives' = incs
        /\ payrolls' = [payrolls EXCEPT ![payrollId] =
                          recalculated(payrollId, incs, deductions)]
  /\ lastOp' = [op |-> "upsertIncentive", id |-> payrollId, again |-> FALSE, failed |-> FALSE]
  /\ UNCHANGED <<branches, employees, exclusions, configs, sheets, dailyInputs,
                 deductions, cashAdvances, call, requests>>

\* eligibleCountsMap[type]: active employees of the branch in the division
\* positions of the type and not excluded from it
eligibleCount(type, branchId) ==
  Cardinality({e \in DOMAIN activeRoster(branchId) :
                 /\ employees[e].position \in getDivisionPositionsForType(type)
                 /\ <<e, type>> \notin rosterExclusions(activeRoster(branchId))})

\* the rows createMany writes for the entries of the request, in order
RECURSIVE incentiveData(_, _)
incentiveData(incs, branchId) ==
  IF incs = <<>> THEN <<>>
  ELSE LET inc == Head(incs)
           config == configFor(inc.type)
           effectiveRate == Nullish(inc.rate, config.rate)
           shouldDivide == /\ isSharedIncentiveType(inc.type)
                           /\ inc.type # "GROOMING" /\ inc.type # "NURSING"
           numEligible ==
             IF shouldDivide
             THEN Some(Falsy(Some(eligibleCount(inc.type, branchId)), 1))
             ELSE None
           result == calculateIncentive(inc.count, inc.inputValue, effectiveRate,
                                        config.formulaType, numEligible)
       IN (IF inc.count > 0 \/ inc.inputValue > 0
           THEN <<[type |-> inc.type, count |-> inc.count,
                   inputValue |-> inc.inputValue, rate |-> effectiveRate,
                   amount |-> result.amount]>>
           ELSE <<>>) \o incentiveData(Tail(incs), branchId)

BulkIncentives(payrollId, incs) ==
  /\ payrollId \in PayrollIds
  /\ LET branchId == employees[payrolls[payrollId].employeeId].branchId
         rows == [incentives EXCEPT ![payrollId] = incentiveData(incs, branchId)]
     IN /\ incentives' = rows
        /\ payrolls' = [payrolls EXCEPT ![payrollId] =
                          recalculated(payrollId, rows, deductions)]
  /\ lastOp' = [op |-> "bulkIncentives", id |-> payrollId, again |-> FALSE, failed |-> FALSE]
  /\ UNCHANGED <<branches, employees, exclusions, configs, sheets, dailyInputs,
                 deductions, cashAdvances, call, requests>>

DeleteIncentive(payrollId, i) ==
  /\ payrollId \in PayrollIds
  /\ i \in 1..Len(incentives[payrollId])
  /\ LET rows == [incentives EXCEPT ![payrollId] = RemoveAt(incentives[payrollId], i)]
     IN /\ incentives' = rows
        /\ payrolls' = [payrolls EXCEPT ![payrollId] =
                          recalculated(payrollId, rows, deductions)]
  /\ lastOp' = [op |-> "deleteIncentive", id |-> payrollId, again |-> FALSE, failed |-> FALSE]
  /\ UNCHANGED <<branches, employees, exclusions, configs, sheets, dailyInputs,
                 deductions, cashAdvances, call, requests>>

(***************************************************************************)
(* Deduction routes and cash-advance mark-paid: each writes the rows and   *)
(* then only totalDeductions of the payroll.                               *)
(***************************************************************************)
withTotalDeductions(p, rows) == [p EXCEPT !.totalDeductions = SumSeq(rows, "amount")]

\* findFirst by (payrollId, type), then update or create; amount is optional
upsertDeduction(rows, type, amount) ==
  LET i == findFirst(rows, type)
  IN IF i # 0
     THEN [rows EXCEPT ![i].amount = Nullish(amount, rows[i].amount)]
     ELSE Append(rows, [type |-> type, amount |-> Falsy(amount, 0)])

CreateDeduction(payrollId, type, amount) ==
  /\ payrollId \in PayrollIds
  /\ LET rows == upsertDeduction(deductions[payrollId], type, amount)
     IN /\ deductions' = [deductions EXCEPT ![payrollId] = rows]
        /\ payrolls' = [payrolls EXCEPT ![payrollId] =
                          withTotalDeductions(payrolls[payrollId], rows)]
  /\ lastOp' = [op |-> "createDeduction", id |-> payrollId, again |-> FALSE, failed |-> FALSE]
  /\ UNCHANGED <<branches, employees, exclusions, configs, sheets, dailyInputs,
                 incentives, cashAdvances, call, requests>>

\* rows: the request's deductions, [type, amount]
BulkDeductions(payrollId, rows) ==
  /\ payrollId \in PayrollIds
  /\ deductions' = [deductions EXCEPT ![payrollId] = rows]
  /\ payrolls' = [payrolls EXCEPT ![payrollId] =
                    withTotalDeductions(payrolls[payrollId], rows)]
  /\ lastOp' = [op |-> "bulkDeductions", id |-> payrollId, again |-> FALSE, failed |-> FALSE]
  /\ UNCHANGED <<branches, employees, exclusions, configs, sheets, dailyInputs,
                 incentives, cashAdvances, call, requests>>

\* the employee's fixed deductions, each divided by the divisor and rounded
fixedRows(fixedDeductions, divisor) ==
  [i \in 1..Len(fixedDeductions) |->
     [type |-> fixedDeductions[i].type,
      amount |-> MathRound(fixedDeductions[i].amount, divisor)]]

ApplyFixed(payrollId) ==
  /\ payrollId \in PayrollIds
  /\ LET payroll == payrolls[payrollId]
         divisor == Falsy(Some(payroll.deductionDivisor), 2)
         rows == fixedRows(employees[payroll.employeeId].fixedDeductions, divisor)
     IN /\ deductions' = [deductions EXCEPT ![payrollId] = rows]
        /\ payrolls' = [payrolls EXCEPT ![payrollId] =
                          withTotalDeductions(payroll, rows)]
  /\ lastOp' = [op |-> "applyFixed", id |-> payrollId, again |-> FALSE, failed |-> FALSE]
  /\ UNCHANGED <<branches, employees, exclusions, configs, sheets, dailyInputs,
                 incentives, cashAdvances, call, requests>>

\* 400 when the divisor is missing, 0 or below 1
SetDivisor(payrollId, divisor) ==
  /\ payrollId \in PayrollIds
  /\ ~(Falsy(divisor, 0) = 0 \/ divisor[1] < 1)
  /\ payrolls' = [payrolls EXCEPT ![payrollId].deductionDivisor = divisor[1]]
  /\ lastOp' = [op |-> "setDivisor", id |-> payrollId, again |-> FALSE, failed |-> FALSE]
  /\ UNCHANGED <<branches, employees, exclusions, configs, sheets, dailyInputs,
                 incentives, deductions, cashAdvances, call, requests>>

DeleteDeduction(payrollId, i) ==
  /\ payrollId \in PayrollIds
  /\ i \in 1..Len(deductions[payrollId])
  /\ LET rows == RemoveAt(deductions[payrollId], i)
     IN /\ deductions' = [deductions EXCEPT ![payrollId] = rows]
        /\ payrolls' = [payrolls EXCEPT ![payrollId] =
                          withTotalDeductions(payrolls[payrollId], rows)]
  /\ lastOp' = [op |-> "deleteDeduction", id |-> payrollId, again |-> FALSE, failed |-> FALSE]
  /\ UNCHANGED <<branches, employees, exclusions, configs, sheets, dailyInputs,
                 incentives, cashAdvances, call, requests>>

\* payrollId 0: the request names no payroll
MarkPaid(id, payrollId) ==
  /\ id \in DOMAIN cashAdvances
  /\ payrollId = 0 \/ payrollId \in PayrollIds
  /\ cashAdvances' = [cashAdvances EXCEPT ![id].isPaid = TRUE]
  /\ IF payrollId # 0
     THEN LET rows == Append(deductions[payrollId],
                             [type |-> "CASH_ADVANCE",
                              amount |-> cashAdvances[id].amount])
          IN /\ Len(rows) <= MaxRows
             /\ deductions' = [deductions EXCEPT ![payrollId] = rows]
             /\ payrolls' = [payrolls EXCEPT ![payrollId] =
                               withTotalDeductions(payrolls[payrollId], rows)]
     ELSE UNCHANGED <<deductions, payrolls>>
  /\ lastOp' = [op |-> "markPaid", id |-> payrollId, again |-> FALSE, failed |-> FALSE]
  /\ UNCHANGED <<branches, employees, exclusions, configs, sheets, dailyInputs,
                 incentives, call, requests>>

(***************************************************************************)
(* Payroll routes: update and calculate.                                   *)
(***************************************************************************)
\* req: optional numbers workingDays, dayOff, absences, totalDaysPresent,
\* holidays, overtimeHours, lateMinutes, mealAllowance, silPay, birthdayLeave
\* and status (Undef when absent)
updatePayroll(existing, emp, incRows, dedRows, req) ==
  LET totalIncentives == SumSeq(incRows, "amount")
      totalDeductions == SumSeq(dedRows, "amount")
      calculatedDaysPresent ==
        IF req.totalDaysPresent # None THEN req.totalDaysPresent[1]
        ELSE Falsy(req.workingDays, existing.workingDays)
               - Nullish(req.absences, existing.absences)
      calculation ==
        calculatePayroll(
          [ratePerDay |-> emp.ratePerDay, ratePerHour |-> emp.ratePerHour,
           totalDaysPresent |-> calculatedDaysPresent,
           holidays |-> Nullish(req.holidays, existing.holidays),
           overtimeHours |-> Nullish(req.overtimeHours, existing.overtimeHours),
           lateMinutes |-> Nullish(req.lateMinutes, existing.lateMinutes),
           mealAllowance |-> Nullish(req.mealAllowance, existing.mealAllowance),
           silPay |-> Nullish(req.silPay, existing.silPay),
           birthdayLeave |-> Nullish(req.birthdayLeave, existing.birthdayLeave),
           totalIncentives |-> totalIncentives,
           totalDeductions |-> totalDeductions])
  IN [existing EXCEPT
        !.workingDays = Nullish(req.workingDays, existing.workingDays),
        !.dayOff = Nullish(req.dayOff, existing.dayOff),
        !.absences = Nullish(req.absences, existing.absences),
        !.totalDaysPresent = calculatedDaysPresent,
        !.holidays = Nullish(req.holidays, existing.holidays),
        !.overtimeHours = Nullish(req.overtimeHours, existing.overtimeHours),
        !.lateMinutes = Nullish(req.lateMinutes, existing.lateMinutes),
        !.mealAllowance = Nullish(req.mealAllowance, existing.mealAllowance),
        !.silPay = Nullish(req.silPay, existing.silPay),
        !.birthdayLeave = Nullish(req.birthdayLeave, existing.birthdayLeave),
        !.basicPay = calculation.basicPay,
        !.holidayPay = calculation.holidayPay,
        !.overtimePay = calculation.overtimePay,
        !.totalIncentives = totalIncentives,
        !.grossPay = calculation.grossPay,
        !.totalDeductions = totalDeductions + calculation.lateDeduction,
        !.netPay = calculation.netPay,
        !.status = IF req.status = Undef THEN existing.status ELSE req.status]

UpdatePayroll(id, req) ==
  /\ id \in PayrollIds
  /\ payrolls' = [payrolls EXCEPT ![id] =
                    updatePayroll(payrolls[id], employees[payrolls[id].employeeId],
                                  incentives[id], deductions[id], req)]
  /\ lastOp' = [op |-> "updatePayroll", id |-> id, again |-> FALSE, failed |-> FALSE]
  /\ UNCHANGED <<branches, employees, exclusions, configs, sheets, dailyInputs,
                 incentives, deductions, cashAdvances, call, requests>>

\* POST /:id/calculate: from the stored totalDaysPresent
calculateStored(payroll, emp, incRows, dedRows) ==
  LET totalIncentives == SumSeq(incRows, "amount")
      totalDeductions == SumSeq(dedRows, "amount")
      calculation ==
        calculatePayroll(
          [ratePerDay |-> emp.ratePerDay, ratePerHour |-> emp.ratePerHour,
           totalDaysPresent |-> payroll.totalDaysPresent,
           holidays |-> payroll.holidays,
           overtimeHours |-> payroll.overtimeHours,
           lateMinutes |-> payroll.lateMinutes,
           mealAllowance |-> payroll.mealAllowance,
           silPay |-> payroll.silPay,
           birthdayLeave |-> payroll.birthdayLeave,
           totalIncentives |-> totalIncentives,
           totalDeductions |-> totalDeductions])
  IN [payroll EXCEPT
        !.basicPay = calculation.basicPay,
        !.holidayPay = calculation.holidayPay,
        !.overtimePay = calculation.overtimePay,
        !.totalIncentives = totalIncentives,
        !.grossPay = calculation.grossPay,
        !.totalDeductions = totalDeductions + calculation.lateDeduction,
        !.netPay = calculation.netPay]

CalculatePayroll(id) ==
  /\ id \in PayrollIds
  /\ payrolls' = [payrolls EXCEPT ![id] =
                    calculateStored(payrolls[id], employees[payrolls[id].employeeId],
                                    incentives[id], deductions[id])]
  /\ lastOp' = [op |-> "calculatePayroll", id |-> id, again |-> FALSE, failed |-> FALSE]
  /\ UNCHANGED <<branches, employees, exclusions, configs, sheets, dailyInputs,
                 incentives, deductions, cashAdvances, call, requests>>

(***************************************************************************)
(* Payroll specification: one branch with a resident and a junior          *)
(* veterinarian, one payroll period each, and the incentive, deduction,    *)
(* cash-advance and payroll requests against those periods.                *)
(***************************************************************************)
PayFixedDeductions == <<[type |-> "SSS", amount |-> 90001]>>
PayCashAdvances == <<[employeeId |-> 1, amount |-> 100000, isPaid |-> FALSE]>>
PaySalaries == {2200000}

NoChange ==
  [workingDays |-> None, dayOff |-> None, absences |-> None,
   totalDaysPresent |-> None, holidays |-> None, overtimeHours |-> None,
   lateMinutes |-> None, mealAllowance |-> None, silPay |-> None,
   birthdayLeave |-> None, status |-> Undef]

PayUpdateRequests ==
  {[NoChange EXCEPT !.dayOff = Some(2), !.absences = Some(1)],
   [NoChange EXCEPT !.lateMinutes = Some(30)],
   [NoChange EXCEPT !.totalDaysPresent = Some(10)],
   [NoChange EXCEPT !.status = "APPROVED"],
   [NoChange EXCEPT !.status = "DRAFT"]}

PayIncentiveBatches ==
  {<<>>, <<[type |-> "SURGERY", count |-> 3, inputValue |-> 0, rate |-> None]>>,
   <<[type |-> "CBC", count |-> 2, inputValue |-> 0, rate |-> None],
     [type |-> "CBC", count |-> 3, inputValue |-> 0, rate |-> None]>>}

PayDeductionBatches == {<<[type |-> "LOAN", amount |-> 50000]>>}

Init ==
  /\ branches = DefaultBranches
  /\ \E sal \in PaySalaries :
       employees =
         <<[EmployeeRow(1, "RESIDENT_VETERINARIAN", sal, 22, 8)
              EXCEPT !.fixedDeductions = PayFixedDeductions],
           EmployeeRow(1, "JUNIOR_VETERINARIAN", sal, 22, 8)>>
  /\ exclusions = {}
  /\ configs = <<>>
  /\ sheets = <<>>
  /\ dailyInputs = {}
  /\ payrolls = <<>>
  /\ incentives = <<>>
  /\ deductions = <<>>
  /\ cashAdvances = PayCashAdvances
  /\ lastOp = [op |-> "none", id |-> 0, again |-> FALSE, failed |-> FALSE]
  /\ call = [fn |-> "none"]
  /\ requests = <<>>

\* the payroll periods the requests address
PayTargets == PayrollIds \cap {1}

Next ==
  \/ CreatePeriod(1, 1, 2, None)
  \/ \E p \in PayTargets : UpsertIncentive(p, "CBC", Some(5), None, None)
  \/ \E p \in PayTargets, incs \in PayIncentiveBatches : BulkIncentives(p, incs)
  \/ \E p \in PayTargets, i \in 1..MaxRows : DeleteIncentive(p, i)
  \/ \E p \in PayTargets :
       /\ Len(deductions[p]) < MaxRows
       /\ CreateDeduction(p, "SSS", Some(120000))
  \/ \E p \in PayTargets, rows \in PayDeductionBatches : BulkDeductions(p, rows)
  \/ \E p \in PayTargets : ApplyFixed(p)
  \/ \E p \in PayTargets, d \in {None, Some(3)} : SetDivisor(p, d)
  \/ \E p \in PayTargets, i \in 1..MaxRows : DeleteDeduction(p, i)
  \/ \E c \in DOMAIN cashAdvances, p \in {0} \cup PayTargets : MarkPaid(c, p)
  \/ \E p \in PayTargets, req \in PayUpdateRequests : UpdatePayroll(p, req)
  \/ \E p \in PayTargets : CalculatePayroll(p)

Spec == Init /\ [][Next]_vars

(***************************************************************************)
(* Employee specification.                                                 *)
(***************************************************************************)
EmpSlots == {1, 2}
EmpPositions == {"RESIDENT_VETERINARIAN", "STAFF"}
EmpSalaries == {2200000}
EmpCustomRates == {None, Some(<<90000, 11000>>)}
EmpBranchDays == {None, Some(22), Some(MaxD)}
EmpBranchHours == {None, Some(MaxH)}

EmpUpdateRequests ==
  {[branchId |-> b, position |-> pos, salary |-> sal, custom |-> None,
    recalculateRates |-> rc, isActive |-> Undef] :
      b \in {0, 2}, pos \in {Undef} \cup EmpPositions,
      sal \in {None, Some(2500000)}, rc \in BOOLEAN}
  \cup {[branchId |-> 0, position |-> Undef, salary |-> None,
         custom |-> Some(<<90000, 11000>>), recalculateRates |-> FALSE,
         isActive |-> Undef],
        [branchId |-> 0, position |-> Undef, salary |-> None, custom |-> None,
         recalculateRates |-> FALSE, isActive |-> "true"]}

InitEmp == InitStore /\ call = [fn |-> "none"] /\ requests = <<>>

NextEmp ==
  \/ \E b \in DOMAIN branches, pos \in EmpPositions, sal \in EmpSalaries,
        custom \in EmpCustomRates :
       /\ Len(employees) + 1 \in EmpSlots
       /\ CreateEmployee(b, pos, sal, custom)
  \/ \E e \in DOMAIN employees, req \in EmpUpdateRequests : UpdateEmployee(e, req)
  \/ \E e \in DOMAIN employees : RecalculateRates(e)
  \/ \E e \in DOMAIN employees : DeleteEmployee(e)
  \/ \E D \in EmpBranchDays, H \in EmpBranchHours : UpdateBranch(1, D, H)

SpecEmp == InitEmp /\ [][NextEmp]_vars

RatesOf(employee) ==
  [ratePerDay |-> employee.ratePerDay, ratePerHour |-> employee.ratePerHour]

C7_RatesConsistent ==
  \A e \in DOMAIN employees :
    ~employees[e].manualRates =>
      LET emp == employees[e]
          D == branches[emp.branchId].workingDaysPerMonth
          H == branches[emp.branchId].workingHoursPerDay
      IN IF emp.position = "RESIDENT_VETERINARIAN"
         THEN /\ IsRoundHalfUp(emp.ratePerDay, emp.salary, D)
              /\ IsRoundHalfUp(emp.ratePerHour, emp.ratePerDay, H)
         ELSE /\ IsRoundHalfUp(emp.ratePerDay, emp.salary * 12, 313)
              /\ IsRoundHalfUp(emp.ratePerHour, emp.ratePerDay, 8)

(***************************************************************************)
(* Payroll totals after the requests.                                      *)
(***************************************************************************)
TotalsMutations ==
  {"upsertIncentive", "bulkIncentives", "deleteIncentive", "createDeduction",
   "bulkDeductions", "applyFixed", "deleteDeduction", "markPaid",
   "updatePayroll"}

TotalsRecomputations ==
  {"upsertIncentive", "bulkIncentives", "deleteIncentive", "updatePayroll",
   "calculatePayroll"}

\* gross and net pay of payroll p from its current rows and fields, over 100
\* and over 300
GrossPay100(p) ==
  LET row == payrolls[p]
      emp == employees[row.employeeId]
  IN emp.ratePerDay * (row.workingDays - row.dayOff - row.absences) * 100
     + row.holidays * emp.ratePerDay + emp.ratePerHour * row.overtimeHours
     + (SumSeq(incentives[p], "amount") + row.mealAllowance + row.silPay
        + row.birthdayLeave) * 100

NetPay300(p) ==
  GrossPay100(p) * 3 - SumSeq(deductions[p], "amount") * 300
  - employees[payrolls[p].employeeId].ratePerHour * payrolls[p].lateMinutes * 5

\* C2: after every completed mutation of a period's incentives, deductions
\* or attendance fields the stored grossPay and netPay are the values a totals
\* recomputation yields from the current rows and fields.
C2_TotalsRecomputedAfterMutation ==
  (lastOp.op \in TotalsMutations /\ lastOp.id \in PayrollIds) =>
    /\ IsRoundHalfUp(payrolls[lastOp.id].grossPay, GrossPay100(lastOp.id), 100)
    /\ IsRoundHalfUp(payrolls[lastOp.id].netPay, NetPay300(lastOp.id), 300)

\* C3: every operation that recomputes a period's totals leaves stored
\* totalDaysPresent = workingDays - dayOff - absences and basicPay based on
\* that value.
C3_DaysPresentRecomputed ==
  (lastOp.op \in TotalsRecomputations /\ lastOp.id \in PayrollIds) =>
    LET row == payrolls[lastOp.id]
        days == row.workingDays - row.dayOff - row.absences
    IN /\ row.totalDaysPresent = days
       /\ row.basicPay = employees[row.employeeId].ratePerDay * days

\* C4: each period's stored totalIncentives is the sum of the amounts of its
\* incentive rows and its stored totalDeductions the sum of the amounts of
\* its deduction rows, the late deduction not being part of it.
C4_StoredTotalsAreRowSums ==
  \A p \in PayrollIds :
    /\ payrolls[p].totalIncentives = SumSeq(incentives[p], "amount")
    /\ payrolls[p].totalDeductions = SumSeq(deductions[p], "amount")

(***************************************************************************)
(* Rounding of pooled amounts.                                             *)
(***************************************************************************)
SortedSeqOf(result, I) == [k \in 1..Cardinality(I) |-> result[SortedSeq(I)[k]]]

Abs(x) == IF x < 0 THEN -x ELSE x

\* the entries of a distribution result that carry the rule's incentiveType
EntriesOf(result, config) ==
  {i \in 1..Len(result) : result[i].incentiveType = config.incentiveType}

SumAmounts(result, I) == SumSeq(SortedSeqOf(result, I), "amount")

\* C11: with a divisor n >= 2 the rounded per-person amount times n is within
\* n centavos of count x rate (calculateIncentive) and of total x rate (a
\* distribution rule), and the amounts one rule gives its receivers sum to at
\* most total x rate plus n centavos.
C11_PooledRoundingTolerance ==
  /\ (/\ call.fn = "calculateIncentive" /\ call.done
      /\ call.formulaType = "COUNT_MULTIPLY"
      /\ call.numEligible # None) =>
       LET n == call.numEligible[1]
       IN n >= 2 => Abs(call.result.amount * n - call.count * call.rate) <= n
  /\ (call.fn = "calculateDistributions" /\ call.done) =>
       \A config \in DistRules :
         LET n == Cardinality(divisionEmployees(config, call.roster, call.excl))
             totalPay == call.totals[sourceTypeOf(config)] * config.rate
             I == EntriesOf(call.result, config)
         IN n >= 2 =>
              /\ \A i \in I : Abs(call.result[i].amount * n - totalPay) <= n
              /\ SumAmounts(call.result, I) <= totalPay + n

\* CONFINEMENT 10 over three counted vets: two resident vets get 183.33 each,
\* and 3 x 183.33 is not 550.00
C11_Witness ==
  /\ call.fn = "calculateDistributions" /\ call.done
  /\ call.totals["CONFINEMENT"] = 10
  /\ Cardinality(divisionEmployees(DISTRIBUTION_CONFIG[4], call.roster, call.excl)) = 3
  /\ Cardinality(EntriesOf(call.result, DISTRIBUTION_CONFIG[4])) = 2
  /\ \A i \in EntriesOf(call.result, DISTRIBUTION_CONFIG[4]) :
       call.result[i].amount = 18333

(***************************************************************************)
(* Sheet specification: branch 1 with a groomer, a junior veterinarian and *)
(* a veterinary nurse, a groomer in branch 2; one sheet for dates 1..2;    *)
(* daily inputs dated inside and outside the sheet's range; payroll        *)
(* periods of both branches and of other dates; distribution.              *)
(***************************************************************************)
SheetRoster ==
  <<[branchId |-> 1, position |-> "GROOMER"],
    [branchId |-> 1, position |-> "JUNIOR_VETERINARIAN"],
    [branchId |-> 1, position |-> "VETERINARY_NURSE"],
    [branchId |-> 2, position |-> "GROOMER"]>>
SheetSalaries == {1100000}
SheetCells == {<<1, "GROOMING">>, <<3, "GROOMING">>, <<1, "NURSING">>}
SheetValues == {0, 3, 5}
SheetEntries == {[date |-> c[1], type |-> c[2], value |-> v] :
                   c \in SheetCells, v \in SheetValues}
\* every batch of one entry, and the batches of two entries
SheetBatches == [1..1 -> SheetEntries] \cup [1..2 -> SheetEntries]
\* the batches the requests of the specification carry
SheetRequests ==
  [1..1 -> SheetEntries]
  \cup {<<[date |-> 1, type |-> "GROOMING", value |-> 5],
          [date |-> 1, type |-> "GROOMING", value |-> 0]>>,
        <<[date |-> 1, type |-> "GROOMING", value |-> 3],
          [date |-> 1, type |-> "NURSING", value |-> 5]>>}
SheetPayrollPeriods == {<<1, 1, 2>>, <<2, 1, 2>>, <<1, 1, 3>>}

InitSheet ==
  /\ branches = DefaultBranches
  /\ \E sal \in SheetSalaries :
       employees = [e \in 1..Len(SheetRoster) |->
                      EmployeeRow(SheetRoster[e].branchId, SheetRoster[e].position,
                                  sal, 22, 8)]
  /\ exclusions = {}
  /\ configs = <<>>
  /\ sheets = <<>>
  /\ dailyInputs = {}
  /\ payrolls = <<>>
  /\ incentives = <<>>
  /\ deductions = <<>>
  /\ cashAdvances = <<>>
  /\ lastOp = [op |-> "none", id |-> 0, again |-> FALSE, failed |-> FALSE]
  /\ call = [fn |-> "none"]
  /\ requests = <<>>

NextSheet ==
  \/ GetSheet(1, 1, 2)
  \/ \E s \in SheetIds, inputs \in SheetRequests : SaveInputs(s, inputs)
  \/ \E d \in SheetPayrollPeriods : CreatePeriod(d[1], d[2], d[3], None)
  \/ \E s \in SheetIds : Distribute(s)
  \/ \E p \in PayrollIds \cap {1} :
       /\ Len(deductions[p]) < MaxRows
       /\ CreateDeduction(p, "SSS", Some(120000))

SpecSheet == InitSheet /\ [][NextSheet]_vars

\* the stored rows of one cell of a sheet
CellRows(rows, sheetId, date, type) ==
  {d \in rows : d.sheetId = sheetId /\ d.date = date /\ d.type = type}

\* the sum of the stored values of a type in a sheet
TypeTotal(rows, sheetId, type) ==
  SumSet({d \in rows : d.sheetId = sheetId /\ d.type = type})

\* the value a batch submits for a cell: that of its last entry for the cell
Submitted(inputs, date, type) ==
  LET K == {k \in 1..Len(inputs) : inputs[k].date = date /\ inputs[k].type = type}
  IN inputs[CHOOSE k \in K : \A j \in K : j <= k].value

\* C12: saving a batch leaves, for each (date, type) of the batch, no stored
\* row when the submitted value is 0 and exactly one row holding the
\* submitted value otherwise; the rows of every other (date, type) and of
\* every other sheet are unchanged; saving the same batch again leaves the
\* stored rows and the totals unchanged.
C12_SaveInputsBatch ==
  \A s \in SheetIds : \A inputs \in SheetBatches :
    LET after == saveInputs(dailyInputs, s, inputs)
        cells == {<<inputs[k].date, inputs[k].type>> : k \in 1..Len(inputs)}
    IN /\ \A c \in cells :
            IF Submitted(inputs, c[1], c[2]) = 0
            THEN CellRows(after, s, c[1], c[2]) = {}
            ELSE /\ Cardinality(CellRows(after, s, c[1], c[2])) = 1
                 /\ \A d \in CellRows(after, s, c[1], c[2]) :
                      d.value = Submitted(inputs, c[1], c[2])
       /\ {d \in after : d.sheetId # s \/ <<d.date, d.type>> \notin cells}
            = {d \in dailyInputs : d.sheetId # s \/ <<d.date, d.type>> \notin cells}
       /\ saveInputs(after, s, inputs) = after
       /\ \A t \in {c[2] : c \in cells} :
            TypeTotal(after, s, t)
              = SumSet({d \in dailyInputs : /\ d.sheetId = s /\ d.type = t
                                            /\ <<d.date, d.type>> \notin cells})
                + SumSet({[cell |-> c, value |-> Submitted(inputs, c[1], c[2])] :
                            c \in {x \in cells : x[2] = t}})

\* a distribution pushed GROOMING 5 to the groomer's payroll, and a later
\* save with value 0 removed the stored GROOMING rows while the NURSING row
\* was left as it was
C12_Witness ==
  /\ lastOp.op = "saveInputs"
  /\ \E p \in PayrollIds : \E i \in 1..Len(incentives[p]) :
       incentives[p][i].type = "GROOMING" /\ incentives[p][i].count = 5
  /\ TypeTotal(dailyInputs, lastOp.id, "GROOMING") = 0
  /\ CellRows(dailyInputs, lastOp.id, 1, "GROOMING") = {}
  /\ \E d \in CellRows(dailyInputs, lastOp.id, 1, "NURSING") : d.value = 5

\* the sum of the stored values of a type dated within the sheet's range
InRangeTotal(sheetId, type) ==
  SumSet({d \in dailyInputs : /\ d.sheetId = sheetId /\ d.type = type
                              /\ sheets[sheetId].startDate <= d.date
                              /\ d.date <= sheets[sheetId].endDate})

\* C13: the period total of a type reported for a sheet and used by
\* distribution is the sum of the sheet's stored rows of that type dated
\* within startDate..endDate; a row dated outside the range contributes to
\* no total and to no distributed amount.
C13_TotalsWithinDateRange ==
  /\ \A s \in SheetIds : \A t \in SHARED_TYPES :
       sheetTotals(s)[t] = InRangeTotal(s, t)
  /\ (lastOp.op = "distribute" /\ lastOp.id \in SheetIds) =>
       \A p \in matchingPayrolls(sheets[lastOp.id],
                                 activeRoster(sheets[lastOp.id].branchId)) :
         \A i \in RowsOfType(incentives[p], "GROOMING") :
           InRangeTotal(lastOp.id, "GROOMING") # 0 =>
             incentives[p][i].count = InRangeTotal(lastOp.id, "GROOMING")

\* the active employees of the sheet's branch eligible for a pooled type and
\* not excluded from it
PoolOf(sheetId, type) ==
  {e \in DOMAIN activeRoster(sheets[sheetId].branchId) :
     /\ employees[e].position \in DEFAULT_INCENTIVE_CONFIG[type].positions
     /\ <<e, type>> \notin exclusions}

\* C14: GROOMING and NURSING tallies entered in the branch daily sheet are
\* pooled and divided among their eligible employees when the sheet is
\* distributed: every eligible employee with a payroll period of the sheet's
\* dates holds a row of the type for count = tally and amount =
\* round2(tally x rate / pool size).
C14_SheetPoolsGroomingAndNursing ==
  (lastOp.op = "distribute" /\ lastOp.id \in SheetIds) =>
    \A t \in {"GROOMING", "NURSING"} :
      LET tally == TypeTotal(dailyInputs, lastOp.id, t)
          pool == PoolOf(lastOp.id, t)
      IN tally # 0 =>
           \A e \in pool : \A p \in PayrollIds :
             (/\ payrolls[p].employeeId = e
              /\ payrolls[p].startDate = sheets[lastOp.id].startDate
              /\ payrolls[p].endDate = sheets[lastOp.id].endDate) =>
               \E i \in RowsOfType(incentives[p], t) :
                 /\ incentives[p][i].count = tally
                 /\ IsRoundHalfUp(incentives[p][i].amount,
                                  tally * DEFAULT_INCENTIVE_CONFIG[t].rate,
                                  Cardinality(pool))

\* C15: no payroll period holds two Incentive rows of the same type.
C15_OneRowPerType ==
  \A p \in PayrollIds :
    \A i, j \in 1..Len(incentives[p]) :
      incentives[p][i].type = incentives[p][j].type => i = j

StatusRank(status) ==
  CASE status = "DRAFT" -> 0 [] status = "PENDING" -> 1
    [] status = "APPROVED" -> 2 [] status = "PAID" -> 3

\* C18: a payroll period is created with status DRAFT and every step leaves
\* the status of a period where it was or moves it to the next one of DRAFT,
\* PENDING, APPROVED, PAID.
C18_StatusMovesForward ==
  [][/\ \A p \in DOMAIN payrolls' \ DOMAIN payrolls : payrolls'[p].status = "DRAFT"
     /\ \A p \in DOMAIN payrolls \cap DOMAIN payrolls' :
          \/ StatusRank(payrolls'[p].status) = StatusRank(payrolls[p].status)
          \/ StatusRank(payrolls'[p].status) = StatusRank(payrolls[p].status) + 1
    ]_vars

(***************************************************************************)
(* Frame of a distribution run.                                            *)
(***************************************************************************)
\* payroll p belongs to an active employee of the sheet's branch and carries
\* the sheet's dates
SamePeriod(p, sheet) ==
  /\ employees[payrolls[p].employeeId].branchId = sheet.branchId
  /\ employees[payrolls[p].employeeId].isActive
  /\ payrolls[p].startDate = sheet.startDate
  /\ payrolls[p].endDate = sheet.endDate

\* the employee is a receiver of some rule
IsReceiver(e, sheet) ==
  \E config \in DistRules :
    e \in receivers(config, activeRoster(sheet.branchId),
                    rosterExclusions(activeRoster(sheet.branchId)))

\* the employee is a receiver of a rule whose source total is not 0
IsPaidReceiver(e, sheetId) ==
  \E config \in DistRules :
    /\ sheetTotals(sheetId)[sourceTypeOf(config)] # 0
    /\ e \in receivers(config, activeRoster(sheets[sheetId].branchId),
                       rosterExclusions(activeRoster(sheets[sheetId].branchId)))

TotalsFields ==
  {"totalDaysPresent", "totalIncentives", "totalDeductions", "basicPay",
   "holidayPay", "overtimePay", "grossPay", "netPay"}

\* C16 as stated: a distribution run changes only payroll periods that
\* belong to a receiver of some rule and carry the sheet's dates; every
\* other period keeps its Incentive rows and its stored fields.
C16_OnlyReceiverPeriodsChange ==
  [][(lastOp'.op = "distribute" /\ lastOp'.id \in SheetIds) =>
       \A p \in PayrollIds :
         (payrolls'[p] # payrolls[p] \/ incentives'[p] # incentives[p]) =>
           /\ SamePeriod(p, sheets[lastOp'.id])
           /\ IsReceiver(payrolls[p].employeeId, sheets[lastOp'.id])]_vars

\* C16 amended: a distribution run changes Incentive rows only of periods
\* that carry the sheet's dates and belong to a receiver of a rule with a
\* non-zero total; it changes stored fields only of periods that carry the
\* sheet's dates and belong to an active employee of the sheet's branch,
\* receiver or not, and of those only the recomputed totals; periods of
\* other dates and of other branches keep everything; the run ends with the
\* sheet marked distributed also when a receiver has no such period.
C16_DistributionFrame ==
  [][(lastOp'.op = "distribute" /\ lastOp'.id \in SheetIds) =>
       /\ sheets'[lastOp'.id].isDistributed
       /\ DOMAIN payrolls' = DOMAIN payrolls
       /\ \A p \in PayrollIds :
            /\ incentives'[p] # incentives[p] =>
                 /\ SamePeriod(p, sheets[lastOp'.id])
                 /\ IsPaidReceiver(payrolls[p].employeeId, lastOp'.id)
            /\ payrolls'[p] # payrolls[p] => SamePeriod(p, sheets[lastOp'.id])
            /\ \A f \in DOMAIN payrolls[p] \ TotalsFields :
                 payrolls'[p][f] = payrolls[p][f]]_vars

\* after a run with a GROOMING tally: the groomer's period of the sheet's
\* dates holds the row, the groomer's period of other dates and the period
\* of the other branch's groomer hold no row and were never recomputed, and
\* the junior veterinarian's period holds no row but was recomputed
C16_Witness ==
  /\ lastOp.op = "distribute" /\ lastOp.id \in SheetIds
  /\ sheetTotals(lastOp.id)["GROOMING"] # 0
  /\ \E p1, p2, p3, p4 \in PayrollIds :
       /\ payrolls[p1].employeeId = 1 /\ payrolls[p1].endDate = 2
       /\ RowsOfType(incentives[p1], "GROOMING") # {}
       /\ payrolls[p2].employeeId = 1 /\ payrolls[p2].endDate = 3
       /\ incentives[p2] = <<>> /\ payrolls[p2].grossPay = 0
       /\ payrolls[p3].employeeId = 4 /\ payrolls[p3].endDate = 2
       /\ incentives[p3] = <<>> /\ payrolls[p3].grossPay = 0
       /\ payrolls[p4].employeeId = 2 /\ payrolls[p4].endDate = 2
       /\ incentives[p4] = <<>> /\ payrolls[p4].grossPay > 0

(***************************************************************************)
(* The isDistributed flag of a sheet.                                      *)
(***************************************************************************)
\* C17: a sheet is created with isDistributed false; the flag turns true
\* only in the distribution run of that sheet; and it is not true after a
\* save of inputs that changed one of the sheet's totals.
C17_IsDistributedTracksTotals ==
  [][/\ \A s \in SheetIds' \ SheetIds : ~sheets'[s].isDistributed
     /\ \A s \in SheetIds :
          /\ (~sheets[s].isDistributed /\ sheets'[s].isDistributed) =>
               (lastOp'.op = "distribute" /\ lastOp'.id = s)
          /\ (lastOp'.op = "saveInputs" /\ sheetTotals(s)' # sheetTotals(s)) =>
               ~sheets'[s].isDistributed]_vars

(***************************************************************************)
(* Requests that are refused: invalid bodies and ids that name no row.     *)
(* Payroll, sheet and employee references are foreign keys of the store.   *)
(***************************************************************************)
\* the response is an error and no write was made
Refused(op, id) ==
  /\ lastOp' = [op |-> op, id |-> id, again |-> FALSE, failed |-> TRUE]
  /\ UNCHANGED <<branches, employees, exclusions, configs, sheets, dailyInputs,
                 payrolls, incentives, deductions, cashAdvances, call, requests>>

\* 400 without incentiveType, 404 when the employee does not exist
ToggleExclusionRefused(id, incentiveType) ==
  /\ incentiveType = Undef \/ id \notin DOMAIN employees
  /\ Refused("toggleExclusion", id)

\* 400 when the divisor is missing, 0 or below 1; the update of a missing
\* payroll throws (500)
SetDivisorRefused(payrollId, divisor) ==
  /\ IF Falsy(divisor, 0) = 0 THEN TRUE
     ELSE divisor[1] < 1 \/ payrollId \notin PayrollIds
  /\ Refused("setDivisor", payrollId)

\* 404 Sheet not found
SaveInputsNotFound(sheetId) ==
  /\ sheetId \notin SheetIds
  /\ Refused("saveInputs", sheetId)

\* 404 Sheet not found
DistributeNotFound(sheetId) ==
  /\ sheetId \notin SheetIds
  /\ Refused("distribute", sheetId)

\* 404 Payroll not found
BulkIncentivesNotFound(payrollId) ==
  /\ payrollId \notin PayrollIds
  /\ Refused("bulkIncentives", payrollId)

\* findFirst finds nothing, create violates the payroll reference (500)
CreateDeductionNotFound(payrollId) ==
  /\ payrollId \notin PayrollIds
  /\ Refused("createDeduction", payrollId)

\* 404 Payroll not found
ApplyFixedNotFound(payrollId) ==
  /\ payrollId \notin PayrollIds
  /\ Refused("applyFixed", payrollId)

\* the cash advance is updated first; then deduction.create violates the
\* payroll reference and the handler answers 500
MarkPaidMissingPayroll(id, payrollId) ==
  /\ id \in DOMAIN cashAdvances
  /\ payrollId # 0 /\ payrollId \notin PayrollIds
  /\ cashAdvances' = [cashAdvances EXCEPT ![id].isPaid = TRUE]
  /\ lastOp' = [op |-> "markPaid", id |-> payrollId, again |-> FALSE, failed |-> TRUE]
  /\ UNCHANGED <<branches, employees, exclusions, configs, sheets, dailyInputs,
                 payrolls, incentives, deductions, call, requests>>

\* deleteMany, then createMany when the list is not empty; for a missing
\* employee createMany violates the employee reference (500), and an empty
\* list is answered 200 with a null body
ReplaceFixedDeductions(id, fixed) ==
  /\ IF id \in DOMAIN employees
     THEN /\ employees' = [employees EXCEPT ![id].fixedDeductions = fixed]
          /\ lastOp' = [op |-> "replaceFixedDeductions", id |-> id,
                        again |-> FALSE, failed |-> FALSE]
     ELSE /\ employees' = employees
          /\ lastOp' = [op |-> "replaceFixedDeductions", id |-> id,
                        again |-> FALSE, failed |-> fixed # <<>>]
  /\ UNCHANGED <<branches, exclusions, configs, sheets, dailyInputs,
                 payrolls, incentives, deductions, cashAdvances, call, requests>>

(***************************************************************************)
(* Refusal specification: the payroll store with one branch, addressed by  *)
(* valid requests, invalid requests and requests naming missing rows.      *)
(***************************************************************************)
ErrMissingIds == {9}
ErrSheetRanges == {<<1, 2>>, <<2, 1>>}
ErrDivisors == {None, Some(0), Some(3)}
ErrIncentiveTypes == {Undef, "GROOMING"}
ErrFixedLists == {<<>>, PayFixedDeductions}
ErrInputs == {<<[date |-> 1, type |-> "GROOMING", value |-> 3]>>}

NextErr ==
  \/ \E r \in ErrSheetRanges : GetSheet(1, r[1], r[2])
  \/ CreatePeriod(1, 1, 2, None)
  \/ \E s \in SheetIds, inputs \in ErrInputs : SaveInputs(s, inputs)
  \/ \E s \in ErrMissingIds : SaveInputsNotFound(s)
  \/ \E s \in SheetIds : Distribute(s)
  \/ \E s \in ErrMissingIds : DistributeNotFound(s)
  \/ \E e \in DOMAIN employees \cap {1}, t \in ErrIncentiveTypes \ {Undef} :
       ToggleExclusion(e, t)
  \/ \E e \in (DOMAIN employees \cap {1}) \cup ErrMissingIds, t \in ErrIncentiveTypes :
       ToggleExclusionRefused(e, t)
  \/ \E p \in PayTargets, d \in ErrDivisors : SetDivisor(p, d)
  \/ \E p \in PayTargets \cup ErrMissingIds, d \in ErrDivisors : SetDivisorRefused(p, d)
  \/ \E p \in ErrMissingIds : BulkIncentivesNotFound(p)
  \/ \E p \in ErrMissingIds : CreateDeductionNotFound(p)
  \/ \E p \in PayTargets : ApplyFixed(p)
  \/ \E p \in ErrMissingIds : ApplyFixedNotFound(p)
  \/ \E c \in DOMAIN cashAdvances, p \in {0} \cup PayTargets : MarkPaid(c, p)
  \/ \E c \in DOMAIN cashAdvances, p \in ErrMissingIds : MarkPaidMissingPayroll(c, p)
  \/ \E e \in (DOMAIN employees \cap {1}) \cup ErrMissingIds, fixed \in ErrFixedLists :
       ReplaceFixedDeductions(e, fixed)

SpecErr == Init /\ [][NextErr]_vars

\* C19: a toggle without incentiveType and a divisor below 1 are refused
\* and change no stored row, and no request stores a sheet whose startDate
\* is after its endDate.
C19_InvalidInputRejected ==
  [][/\ (lastOp'.failed /\ lastOp'.op \in {"toggleExclusion", "setDivisor"}) =>
          storeVars' = storeVars
     /\ \A s \in SheetIds' \ SheetIds :
          sheets'[s].startDate <= sheets'[s].endDate]_vars

\* C20: a request of the listed operations that fails on a missing
\* employee, payroll or sheet leaves every stored row as it was.
C20_NotFoundLeavesStore ==
  [][(/\ lastOp'.failed
      /\ lastOp'.op \in {"saveInputs", "distribute", "bulkIncentives",
                         "createDeduction", "applyFixed", "markPaid",
                         "replaceFixedDeductions"}) =>
       storeVars' = storeVars]_vars

activeConfigs == {t \in DOMAIN configs : configs[t].isActive}

\* GET /config: the defaults when no active row is stored, else the rows
getConfig ==
  IF activeConfigs = {}
  THEN [t \in IncentiveType |->
          [rate |-> DEFAULT_INCENTIVE_CONFIG[t].rate,
           formulaType |-> DEFAULT_INCENTIVE_CONFIG[t].formulaType]]
  ELSE [t \in activeConfigs |->
          [rate |-> configs[t].rate, formulaType |-> configs[t].formulaType]]

\* GET /config/position/:position: the types listed for the position
getConfigForPosition(position) ==
  IF activeConfigs = {}
  THEN {t \in IncentiveType : position \in DEFAULT_INCENTIVE_CONFIG[t].positions}
  ELSE {t \in activeConfigs : position \in configs[t].positions}

GetConfig ==
  /\ call' = [fn |-> "getConfig", done |-> TRUE, result |-> getConfig]
  /\ lastOp' = [op |-> "getConfig", id |-> 0, again |-> FALSE, failed |-> FALSE]
  /\ UNCHANGED <<storeVars, requests>>

GetConfigForPosition(position) ==
  /\ call' = [fn |-> "getConfigForPosition", done |-> TRUE,
              position |-> position, result |-> getConfigForPosition(position)]
  /\ lastOp' = [op |-> "getConfigForPosition", id |-> 0, again |-> FALSE,
                failed |-> FALSE]
  /\ UNCHANGED <<storeVars, requests>>

\* prisma.incentiveConfig.upsert: req holds the optional rate, positions
\* and isActive of the body
updateConfig(type, req) ==
  IF type \in DOMAIN configs
  THEN [configs[type] EXCEPT !.rate = Nullish(req.rate, configs[type].rate),
                             !.positions = Nullish(req.positions, configs[type].positions),
                             !.isActive = Nullish(req.isActive, configs[type].isActive)]
  ELSE [rate |-> Falsy(req.rate, 0),
        formulaType |-> "COUNT_MULTIPLY",
        positions |-> Nullish(req.positions, {}),
        isActive |-> Nullish(req.isActive, TRUE)]

UpdateConfig(type, req) ==
  /\ configs' = [t \in DOMAIN configs \cup {type} |->
                   IF t = type THEN updateConfig(type, req) ELSE configs[t]]
  /\ lastOp' = [op |-> "updateConfig", id |-> 0,
                again |-> type \in DOMAIN configs, failed |-> FALSE]
  /\ UNCHANGED <<branches, employees, exclusions, sheets, dailyInputs,
                 payrolls, incentives, deductions, cashAdvances, call, requests>>

\* POST /config/init: 400 when a row exists, else every default is stored
InitConfigs ==
  /\ IF DOMAIN configs # {}
     THEN /\ configs' = configs
          /\ lastOp' = [op |-> "initConfigs", id |-> 0, again |-> FALSE,
                        failed |-> TRUE]
     ELSE /\ configs' = [t \in IncentiveType |->
                           [rate |-> DEFAULT_INCENTIVE_CONFIG[t].rate,
                            formulaType |-> DEFAULT_INCENTIVE_CONFIG[t].formulaType,
                            positions |-> DEFAULT_INCENTIVE_CONFIG[t].positions,
                            isActive |-> TRUE]]
          /\ lastOp' = [op |-> "initConfigs", id |-> 0, again |-> FALSE,
                        failed |-> FALSE]
  /\ UNCHANGED <<branches, employees, exclusions, sheets, dailyInputs,
                 payrolls, incentives, deductions, cashAdvances, call, requests>>

(***************************************************************************)
(* Configuration specification: the payroll store of one branch with the   *)
(* configuration routes and per-employee incentive saves.                  *)
(***************************************************************************)
CfgTypes == {"SURGERY", "CBC"}
CfgRequests ==
  {[rate |-> Some(20), positions |-> None, isActive |-> None],
   [rate |-> None, positions |-> None, isActive |-> Some(FALSE)]}
CfgRates == {None, Some(30)}
CfgCounts == {2}
CfgInputValues == {1000}
CfgPositions == {"JUNIOR_VETERINARIAN"}

NextCfg ==
  \/ CreatePeriod(1, 1, 2, None)
  \/ GetConfig
  \/ \E position \in CfgPositions : GetConfigForPosition(position)
  \/ \E t \in CfgTypes, req \in CfgRequests : UpdateConfig(t, req)
  \/ InitConfigs
  \/ \E p \in PayTargets, t \in CfgTypes, c \in CfgCounts, v \in CfgInputValues,
        r \in CfgRates :
       UpsertIncentive(p, t, Some(c), Some(v), r)
  \/ \E p \in PayTargets, t \in CfgTypes, c \in CfgCounts, v \in CfgInputValues,
        r \in CfgRates :
       BulkIncentives(p, <<[type |-> t, count |-> c, inputValue |-> v, rate |-> r]>>)

SpecCfg == Init /\ [][NextCfg]_vars

\* C22: the config listing and the per-position listing include every
\* default type that has no persisted row, and the rate of a saved incentive
\* is the request's rate, else the persisted rate, else the default rate.
C22_ConfigFallsBackPerType ==
  /\ [][lastOp'.op = "getConfig" =>
          \A t \in IncentiveType \ DOMAIN configs :
            /\ t \in DOMAIN call'.result
            /\ call'.result[t].rate = DEFAULT_INCENTIVE_CONFIG[t].rate]_vars
  /\ [][lastOp'.op = "getConfigForPosition" =>
          \A t \in IncentiveType \ DOMAIN configs :
            call'.position \in DEFAULT_INCENTIVE_CONFIG[t].positions =>
              t \in call'.result]_vars
  /\ [](\A t \in CfgTypes, r \in CfgRates :
          upsertIncentive(<<>>, t, Some(2), None, r)[1].rate =
            IF r # None THEN r[1]
            ELSE IF t \in DOMAIN configs THEN configs[t].rate
            ELSE DEFAULT_INCENTIVE_CONFIG[t].rate)

\* C29: whatever config edits were made, a stored SURGERY or EMERGENCY row
\* carries inputValue x rate percent and a row of a count-based type
\* carries count x rate.
C29_ConfigEditKeepsFormula ==
  \A p \in PayrollIds : \A i \in 1..Len(incentives[p]) :
    LET row == incentives[p][i]
    IN IF row.type \in {"SURGERY", "EMERGENCY"}
       THEN IsRoundHalfUp(row.amount, row.inputValue * row.rate, 100)
       ELSE row.amount = row.count * row.rate

(***************************************************************************)
(* The earlier copy of the incentive routes (src/unnamed/part_000): its    *)
(* recalculatePayrollTotals keeps the stored totalDaysPresent, applies the *)
(* period's holidayRate and pays overtime at 1.25.  holidayRate, holidays  *)
(* and overtimeHours are in hundredths.  The whole-centavo terms are added *)
(* outside the rounding, which leaves the rounded value the same.          *)
(***************************************************************************)
legacyRecalculatePayrollTotals(p, emp, incRows, dedRows) ==
  LET totalIncentives == SumSeq(incRows, "amount")
      totalDeductions == SumSeq(dedRows, "amount")
      basicPay == emp.ratePerDay * p.totalDaysPresent
      holidayPay10000 == emp.ratePerDay * p.holidayRate * p.holidays
      overtimePay10000 == emp.ratePerHour * 125 * p.overtimeHours
      lateDeduction60 == emp.ratePerHour * p.lateMinutes
      whole == basicPay + totalIncentives + p.mealAllowance + p.silPay
               + p.birthdayLeave
      fraction10000 == holidayPay10000 + overtimePay10000
  IN [p EXCEPT !.totalIncentives = totalIncentives,
               !.totalDeductions = totalDeductions,
               !.basicPay = roundToTwo(basicPay, 1),
               !.holidayPay = roundToTwo(holidayPay10000, 10000),
               !.overtimePay = roundToTwo(overtimePay10000, 10000),
               !.grossPay = whole + roundToTwo(fraction10000, 10000),
               !.netPay = whole - totalDeductions
                          + roundToTwo(fraction10000 * 3 - lateDeduction60 * 500,
                                       30000)]

(***************************************************************************)
(* Totals specification: one call of a totals recomputation on a payroll   *)
(* period drawn from a few attendance, incentive and deduction values; the *)
(* larger pair of rates comes without holidays and overtime.               *)
(***************************************************************************)
TotRecomputations ==
  {"calculatePayroll", "recalculatePayrollTotals",
   "sheetRecalculatePayrollTotals", "legacyRecalculatePayrollTotals"}
TotRates == {<<33333, 4167>>, <<100000, 12500>>}
TotWorkingDays == {20}
TotDayOff == {0, 2}
TotHolidays == {0, 50}
TotHolidayRates == {100, 130}
TotOvertimeHours == {0, 33, 150}
TotLateMinutes == {0, 7}
TotIncentives == {0, 50000}
TotDeductions == {0, 120000}

TotPeriod(workingDays, dayOff, holidays, holidayRate, overtimeHours, lateMinutes) ==
  LET row == [PayrollPeriodRow(1, 1, 2, Some(workingDays))
                EXCEPT !.dayOff = dayOff,
                       !.totalDaysPresent = workingDays - dayOff,
                       !.holidays = holidays,
                       !.overtimeHours = overtimeHours,
                       !.lateMinutes = lateMinutes]
  IN [f \in DOMAIN row \cup {"holidayRate"} |->
        IF f = "holidayRate" THEN holidayRate ELSE row[f]]

TotInputs ==
  {[fn |-> fn, done |-> FALSE,
    emp |-> [ratePerDay |-> r[1], ratePerHour |-> r[2]],
    p |-> TotPeriod(w, o, h, hr, ot, lm),
    incRows |-> IF inc = 0 THEN <<>> ELSE <<[type |-> "CBC", amount |-> inc]>>,
    dedRows |-> IF ded = 0 THEN <<>> ELSE <<[type |-> "SSS", amount |-> ded]>>] :
     fn \in TotRecomputations, r \in TotRates, w \in TotWorkingDays,
     o \in TotDayOff, h \in TotHolidays, hr \in TotHolidayRates,
     ot \in TotOvertimeHours, lm \in TotLateMinutes, inc \in TotIncentives,
     ded \in TotDeductions}

TotCalls ==
  {c \in TotInputs : \/ c.emp.ratePerDay < 100000
                     \/ c.p.holidays = 0 /\ c.p.overtimeHours = 0}

InitTot == InitStore /\ call \in TotCalls /\ requests = <<>>

\* POST /payroll/:id/calculate: calculatePayroll over the stored row
CallCalculatePayroll ==
  /\ call.fn = "calculatePayroll" /\ ~call.done
  /\ call' = [call EXCEPT !.done = TRUE,
                          !.p = calculateStored(call.p, call.emp, call.incRows,
                                                call.dedRows)]
  /\ UNCHANGED <<storeVars, lastOp, requests>>

CallRecalculatePayrollTotals ==
  /\ call.fn = "recalculatePayrollTotals" /\ ~call.done
  /\ call' = [call EXCEPT !.done = TRUE,
                          !.p = recalculatePayrollTotals(call.p, call.emp,
                                                         call.incRows, call.dedRows)]
  /\ UNCHANGED <<storeVars, lastOp, requests>>

CallSheetRecalculatePayrollTotals ==
  /\ call.fn = "sheetRecalculatePayrollTotals" /\ ~call.done
  /\ call' = [call EXCEPT !.done = TRUE,
                          !.p = sheetRecalculatePayrollTotals(call.p, call.emp,
                                                              call.incRows, call.dedRows)]
  /\ UNCHANGED <<storeVars, lastOp, requests>>

CallLegacyRecalculatePayrollTotals ==
  /\ call.fn = "legacyRecalculatePayrollTotals" /\ ~call.done
  /\ call' = [call EXCEPT !.done = TRUE,
                          !.p = legacyRecalculatePayrollTotals(call.p, call.emp,
                                                               call.incRows, call.dedRows)]
  /\ UNCHANGED <<storeVars, lastOp, requests>>

NextTot ==
  \/ CallCalculatePayroll
  \/ CallRecalculatePayrollTotals
  \/ CallSheetRecalculatePayrollTotals
  \/ CallLegacyRecalculatePayrollTotals

SpecTot == InitTot /\ [][NextTot]_vars

\* C23: after a recomputation, basicPay is ratePerDay x totalDaysPresent,
\* holidayPay is holidays x ratePerDay and overtimePay is ratePerHour x
\* overtimeHours, each rounded half-up to the centavo, with no overtime
\* multiplier; with basicPay 20000, incentives 500, deductions 1200 and
\* nothing else, grossPay is 20500 and netPay 19300.
C23_RecomputationFormulas ==
  call.done =>
    LET p == call.p
        emp == call.emp
    IN /\ p.basicPay = emp.ratePerDay * p.totalDaysPresent
       /\ IsRoundHalfUp(p.holidayPay, p.holidays * emp.ratePerDay, 100)
       /\ IsRoundHalfUp(p.overtimePay, emp.ratePerHour * p.overtimeHours, 100)
       /\ (/\ p.basicPay = 2000000 /\ p.holidays = 0 /\ p.overtimeHours = 0
           /\ p.lateMinutes = 0 /\ p.totalIncentives = 50000
           /\ SumSeq(call.dedRows, "amount") = 120000) =>
            (p.grossPay = 2050000 /\ p.netPay = 1930000)

\* C24: in the stored values of one recomputation, grossPay is the sum of
\* the stored basicPay, holidayPay, overtimePay, totalIncentives,
\* mealAllowance, silPay and birthdayLeave, and netPay is the stored
\* grossPay less the deduction rows and less the late deduction rounded to
\* the centavo.
C24_StoredTotalsAddUp ==
  call.done =>
    LET p == call.p
        lateDeduction == MathRound(call.emp.ratePerHour * p.lateMinutes, 60)
    IN /\ p.grossPay = p.basicPay + p.holidayPay + p.overtimePay
                       + p.totalIncentives + p.mealAllowance + p.silPay
                       + p.birthdayLeave
       /\ p.netPay = p.grossPay - SumSeq(call.dedRows, "amount") - lateDeduction

(***************************************************************************)
(* Distribution preview (incentive sheet routes) and the eligible-counts   *)
(* endpoint (incentive routes).                                            *)
(***************************************************************************)
\* divisionCount > 0 ? totalPay / divisionCount : 0, rounded to the centavo
previewPerPerson(total, rate, divisionCount) ==
  IF divisionCount > 0 THEN roundToTwo(total * rate, divisionCount) ELSE 0

\* calculateDistributionPreview: one item per rule, in the rules' order
calculateDistributionPreview(totals, roster, excl) ==
  [k \in 1..Len(DISTRIBUTION_CONFIG) |->
     LET config == DISTRIBUTION_CONFIG[k]
         total == totals[sourceTypeOf(config)]
         divisionCount == Cardinality(divisionEmployees(config, roster, excl))
     IN [configKey |-> config.configKey, total |-> total, rate |-> config.rate,
         numEligible |-> divisionCount,
         totalPay |-> roundToTwo(total * config.rate, 1),
         perPerson |-> previewPerPerson(total, config.rate, divisionCount),
         eligible |-> receivers(config, roster, excl)]]

\* GET /sheet for a sheet that exists: the response's distributionPreview
ReadSheet(sheetId) ==
  /\ sheetId \in SheetIds
  /\ LET roster == activeRoster(sheets[sheetId].branchId)
     IN call' = [fn |-> "calculateDistributionPreview", done |-> TRUE,
                 result |-> calculateDistributionPreview(
                              sheetTotals(sheetId), roster, rosterExclusions(roster))]
  /\ lastOp' = [op |-> "readSheet", id |-> sheetId, again |-> FALSE, failed |-> FALSE]
  /\ UNCHANGED <<storeVars, requests>>

\* GET /eligible-counts/:branchId: the division count of each shared type
GetEligibleCounts(branchId) ==
  /\ call' = [fn |-> "eligibleCounts", done |-> TRUE,
              result |-> [t \in {x \in IncentiveType : isSharedIncentiveType(x)} |->
                            eligibleCount(t, branchId)]]
  /\ lastOp' = [op |-> "eligibleCounts", id |-> branchId, again |-> FALSE,
                failed |-> FALSE]
  /\ UNCHANGED <<storeVars, requests>>

(***************************************************************************)
(* Pool specification: one branch whose roster is drawn from a few         *)
(* rosters, with exclusions, one sheet, payroll periods, the distribution, *)
(* its preview, the eligible counts and per-employee saves of shared types.*)
(***************************************************************************)
PoolRosters ==
  {<<"GROOMER", "RESIDENT_VETERINARIAN">>,
   <<"CLINIC_SECRETARY", "RESIDENT_VETERINARIAN">>,
   <<"VETERINARY_NURSE", "JUNIOR_VETERINARIAN">>}
PoolSalaries == {1100000}
PoolExclusionTypes == {"CONFINEMENT_VET", "CONFINEMENT_ASST"}
PoolToggles == {<<1, "CONFINEMENT_ASST">>, <<2, "CONFINEMENT_VET">>}
PoolInputs ==
  {<<[date |-> 1, type |-> "CONFINEMENT", value |-> 10]>>,
   <<[date |-> 1, type |-> "CONFINEMENT", value |-> 0]>>}
PoolBatches ==
  {<<[type |-> t, count |-> 2, inputValue |-> 0, rate |-> None]>> :
     t \in PoolExclusionTypes}

InitPool ==
  /\ branches = DefaultBranches
  /\ \E r \in PoolRosters, sal \in PoolSalaries :
       employees = [e \in 1..Len(r) |-> EmployeeRow(1, r[e], sal, 22, 8)]
  /\ exclusions = {}
  /\ configs = <<>>
  /\ sheets = <<>>
  /\ dailyInputs = {}
  /\ payrolls = <<>>
  /\ incentives = <<>>
  /\ deductions = <<>>
  /\ cashAdvances = <<>>
  /\ lastOp = [op |-> "none", id |-> 0, again |-> FALSE, failed |-> FALSE]
  /\ call = [fn |-> "none"]
  /\ requests = <<>>

NextPool ==
  \/ GetSheet(1, 1, 2)
  \/ \E s \in SheetIds : ReadSheet(s)
  \/ \E s \in SheetIds, inputs \in PoolInputs : SaveInputs(s, inputs)
  \/ CreatePeriod(1, 1, 2, None)
  \/ \E x \in PoolToggles : ToggleExclusion(x[1], x[2])
  \/ GetEligibleCounts(1)
  \/ \E s \in SheetIds : Distribute(s)
  \/ \E p \in PayrollIds, incs \in PoolBatches : BulkIncentives(p, incs)

SpecPool == InitPool /\ [][NextPool]_vars

\* the rule's division pool over the branch's active roster
PoolCount(config, branchId) ==
  Cardinality(divisionEmployees(config, activeRoster(branchId),
                                rosterExclusions(activeRoster(branchId))))

\* C25: with an empty division pool the per-person amount is total x rate,
\* in the entries of a distribution, in the items of the preview and in the
\* rows of a per-employee bulk save of a shared type.
C25_EmptyPoolDividesByOne ==
  /\ [](\A s \in SheetIds :
          LET roster == activeRoster(sheets[s].branchId)
              dists == calculateDistributions(sheetTotals(s), roster,
                                              rosterExclusions(roster))
          IN \A i \in 1..Len(dists) :
               dists[i].numEligible = 0 =>
                 dists[i].amount = dists[i].total * dists[i].rate)
  /\ [][lastOp'.op = "readSheet" =>
          \A k \in 1..Len(call'.result) :
            call'.result[k].numEligible = 0 =>
              call'.result[k].perPerson =
                call'.result[k].total * call'.result[k].rate]_vars
  /\ [][lastOp'.op = "bulkIncentives" =>
          \A i \in 1..Len(incentives'[lastOp'.id]) :
            LET row == incentives'[lastOp'.id][i]
            IN (/\ row.type \in PoolExclusionTypes
                /\ eligibleCount(row.type, 1) = 0) =>
                 row.amount = row.count * row.rate]_vars

\* C28: for every distribution rule of a shared type, the division count
\* of the per-employee path (eligible counts, bulk save) equals the
\* division count of the sheet distribution.
C28_DivisionCountsAgree ==
  \A config \in DistRules :
    isSharedIncentiveType(config.incentiveType) =>
      eligibleCount(config.incentiveType, 1) = PoolCount(config, 1)

(***************************************************************************)
(* Rows of earlier distribution runs.                                      *)
(***************************************************************************)
\* C27: after a distribution run, a period with the sheet's dates holds a
\* row of a rule's incentive type exactly when the rule's source total is
\* not 0 and the period's employee is a current receiver of the rule, and
\* the row then carries the current per-person amount.
C27_NoStaleDistributedRows ==
  [][(lastOp'.op = "distribute" /\ lastOp'.id \in SheetIds) =>
       LET sheet == sheets[lastOp'.id]
           roster == activeRoster(sheet.branchId)
           excl == rosterExclusions(roster)
           totals == sheetTotals(lastOp'.id)
       IN \A config \in DistRules : \A p \in PayrollIds :
            SamePeriod(p, sheet) =>
              LET current == /\ totals[sourceTypeOf(config)] # 0
                             /\ payrolls[p].employeeId \in receivers(config, roster, excl)
                  rows == RowsOfType(incentives'[p], config.incentiveType)
              IN /\ (rows # {}) <=> current
                 /\ \A i \in rows :
                      incentives'[p][i].amount =
                        perPersonAmount(totals[sourceTypeOf(config)], config.rate,
                                        Cardinality(divisionEmployees(config, roster, excl)))]_vars

(***************************************************************************)
(* Frame of a per-employee incentive save.                                 *)
(***************************************************************************)
\* C30: a single upsert or a bulk save on a period leaves every other
\* period's Incentive rows as they were, and every row the period held
\* before is either still there unchanged or replaced by a row of its own
\* type (a type the request named).
C30_SaveKeepsOtherTypes ==
  [][(lastOp'.op \in {"upsertIncentive", "bulkIncentives"} /\ ~lastOp'.failed) =>
       /\ \A q \in PayrollIds \ {lastOp'.id} : incentives'[q] = incentives[q]
       /\ \A i \in 1..Len(incentives[lastOp'.id]) :
            LET old == incentives[lastOp'.id][i]
                new == incentives'[lastOp'.id]
            IN \/ \E j \in 1..Len(new) : new[j] = old
               \/ RowsOfType(new, old.type) # {}]_vars

(***************************************************************************)
(* Interleaved requests.  A handler is a chain of awaited store calls, and *)
(* between two awaits the calls of another request may run.  requests      *)
(* holds the requests in flight: procs[i] is the position (pc) and the     *)
(* local values of request i, nextId the id the store gives the next       *)
(* Incentive row (rows carry their id here, update addresses a row by it). *)
(***************************************************************************)
Request(kind, target, data) ==
  [kind |-> kind, target |-> target, data |-> data, pc |-> "start",
   distributions |-> <<>>, k |-> 1, existing |-> 0,
   matching |-> <<>>, m |-> 1, allIncentives |-> <<>>]

withId(row, id) ==
  [id |-> id, type |-> row.type, count |-> row.count,
   inputValue |-> row.inputValue, rate |-> row.rate, amount |-> row.amount]

\* the index of the row with this id, 0 when it is gone
rowById(rows, id) ==
  IF \E j \in 1..Len(rows) : rows[j].id = id
  THEN CHOOSE j \in 1..Len(rows) : rows[j].id = id
  ELSE 0

Elements(seq) == {seq[j] : j \in 1..Len(seq)}

Completed(i, failed) ==
  [op |-> requests.procs[i].kind, id |-> requests.procs[i].target,
   again |-> FALSE, failed |-> failed]

\* distribute: the reads of the sheet, the roster, the exclusions and the
\* matching payroll periods, and the distributions computed from them
DistributeRead(i) ==
  LET r == requests.procs[i]
      sheet == sheets[r.target]
      roster == activeRoster(sheet.branchId)
      excl == rosterExclusions(roster)
      dists == calculateDistributions(sheetTotals(r.target), roster, excl)
      matching == SortedSeq(matchingPayrolls(sheet, roster))
  IN /\ r.kind = "distribute" /\ r.pc = "start"
     /\ requests' = [requests EXCEPT !.procs[i] =
                       [r EXCEPT !.distributions = dists, !.matching = matching,
                                 !.pc = IF dists # <<>> THEN "findFirst"
                                        ELSE IF matching # <<>> THEN "recalculate"
                                        ELSE "markDistributed"]]
     /\ UNCHANGED <<storeVars, lastOp, call>>

\* distribute, one distribution: incentive.findFirst by (payrollId, type)
DistributeFindFirst(i) ==
  LET r == requests.procs[i]
      dist == r.distributions[r.k]
      payroll == payrollMapGet(Elements(r.matching), dist.employeeId)
      found == IF payroll = 0 THEN 0
               ELSE findFirst(incentives[payroll], dist.incentiveType)
  IN /\ r.kind = "distribute" /\ r.pc = "findFirst"
     /\ requests' = [requests EXCEPT !.procs[i] =
                       IF payroll = 0
                       THEN [r EXCEPT !.k = r.k + 1,
                                      !.pc = IF r.k < Len(r.distributions) THEN "findFirst"
                                             ELSE IF r.matching # <<>> THEN "recalculate"
                                             ELSE "markDistributed"]
                       ELSE [r EXCEPT !.existing =
                                        IF found = 0 THEN 0
                                        ELSE incentives[payroll][found].id,
                                      !.pc = "write"]]
     /\ UNCHANGED <<storeVars, lastOp, call>>

\* distribute, one distribution: incentive.update of the row found, or
\* incentive.create when none was found; update of a row that is gone throws
DistributeWrite(i) ==
  LET r == requests.procs[i]
      dist == r.distributions[r.k]
      payroll == payrollMapGet(Elements(r.matching), dist.employeeId)
      rows == incentives[payroll]
      roundedAmount == roundToTwo(dist.amount, 1)
      at == rowById(rows, r.existing)
      next == [r EXCEPT !.k = r.k + 1,
                        !.pc = IF r.k < Len(r.distributions) THEN "findFirst"
                               ELSE "recalculate"]
  IN /\ r.kind = "distribute" /\ r.pc = "write"
     /\ IF r.existing = 0
        THEN /\ incentives' = [incentives EXCEPT ![payroll] =
                  Append(rows, [id |-> requests.nextId, type |-> dist.incentiveType,
                                count |-> dist.total, inputValue |-> 0,
                                rate |-> dist.rate, amount |-> roundedAmount])]
             /\ requests' = [requests EXCEPT !.procs[i] = next,
                                             !.nextId = requests.nextId + 1]
             /\ UNCHANGED lastOp
        ELSE IF at # 0
        THEN /\ incentives' = [incentives EXCEPT ![payroll] =
                  [rows EXCEPT ![at].count = dist.total, ![at].rate = dist.rate,
                               ![at].amount = roundedAmount]]
             /\ requests' = [requests EXCEPT !.procs[i] = next]
             /\ UNCHANGED lastOp
        ELSE /\ requests' = [requests EXCEPT !.procs[i].pc = "failed"]
             /\ lastOp' = Completed(i, TRUE)
             /\ UNCHANGED incentives
     /\ UNCHANGED <<branches, employees, exclusions, configs, sheets, dailyInputs,
                    payrolls, deductions, cashAdvances, call>>

\* recalculatePayrollTotals of either route file, first await:
\* incentive.findMany of the payroll's rows
RecalculateRead(i) ==
  LET r == requests.procs[i]
  IN /\ r.pc = "recalculate"
     /\ requests' = [requests EXCEPT !.procs[i] =
                       [r EXCEPT !.allIncentives = incentives[r.matching[r.m]],
                                 !.pc = "update"]]
     /\ UNCHANGED <<storeVars, lastOp, call>>

\* recalculatePayrollTotals, last await: payrollPeriod.update with the totals
\* computed from the rows read before
RecalculateUpdate(i) ==
  LET r == requests.procs[i]
      p == r.matching[r.m]
      emp == employees[payrolls[p].employeeId]
      last == r.m = Len(r.matching)
  IN /\ r.pc = "update"
     /\ payrolls' = [payrolls EXCEPT ![p] =
                       IF r.kind = "distribute"
                       THEN sheetRecalculatePayrollTotals(payrolls[p], emp,
                                                          r.allIncentives, deductions[p])
                       ELSE recalculatePayrollTotals(payrolls[p], emp,
                                                     r.allIncentives, deductions[p])]
     /\ requests' = [requests EXCEPT !.procs[i] =
                       [r EXCEPT !.m = r.m + 1,
                                 !.pc = IF ~last THEN "recalculate"
                                        ELSE IF r.kind = "distribute" THEN "markDistributed"
                                        ELSE "done"]]
     /\ lastOp' = IF last /\ r.kind # "distribute" THEN Completed(i, FALSE) ELSE lastOp
     /\ UNCHANGED <<branches, employees, exclusions, configs, sheets, dailyInputs,
                    incentives, deductions, cashAdvances, call>>

\* distribute: incentiveSheet.update isDistributed, then the response
MarkDistributed(i) ==
  LET r == requests.procs[i]
  IN /\ r.kind = "distribute" /\ r.pc = "markDistributed"
     /\ sheets' = [sheets EXCEPT ![r.target].isDistributed = TRUE]
     /\ requests' = [requests EXCEPT !.procs[i].pc = "done"]
     /\ lastOp' = Completed(i, FALSE)
     /\ UNCHANGED <<branches, employees, exclusions, configs, dailyInputs,
                    payrolls, incentives, deductions, cashAdvances, call>>

\* bulk save: the reads of the payroll, the branch roster and the exclusions
BulkRead(i) ==
  LET r == requests.procs[i]
  IN /\ r.kind = "bulkIncentives" /\ r.pc = "start"
     /\ r.target \in PayrollIds
     /\ requests' = [requests EXCEPT !.procs[i].pc = "deleteMany"]
     /\ UNCHANGED <<storeVars, lastOp, call>>

\* bulk save: incentive.deleteMany({ payrollId })
BulkDeleteMany(i) ==
  LET r == requests.procs[i]
  IN /\ r.kind = "bulkIncentives" /\ r.pc = "deleteMany"
     /\ incentives' = [incentives EXCEPT ![r.target] = <<>>]
     /\ requests' = [requests EXCEPT !.procs[i].pc = "createMany"]
     /\ UNCHANGED <<branches, employees, exclusions, configs, sheets, dailyInputs,
                    payrolls, deductions, cashAdvances, lastOp, call>>

\* bulk save: the rows of the request, incentive.createMany
BulkCreateMany(i) ==
  LET r == requests.procs[i]
      branchId == employees[payrolls[r.target].employeeId].branchId
      data == incentiveData(r.data, branchId)
      rows == [j \in 1..Len(data) |-> withId(data[j], requests.nextId + j - 1)]
  IN /\ r.kind = "bulkIncentives" /\ r.pc = "createMany"
     /\ incentives' = [incentives EXCEPT ![r.target] = incentives[r.target] \o rows]
     /\ requests' = [requests EXCEPT !.procs[i] =
                       [r EXCEPT !.matching = <<r.target>>, !.pc = "recalculate"],
                     !.nextId = requests.nextId + Len(data)]
     /\ UNCHANGED <<branches, employees, exclusions, configs, sheets, dailyInputs,
                    payrolls, deductions, cashAdvances, lastOp, call>>

(***************************************************************************)
(* Two requests at once on one groomer's period: two distribution runs of  *)
(* the period's sheet, or a distribution run and a bulk save.  The period  *)
(* starts without rows or with the row of an earlier run.                  *)
(***************************************************************************)
RaceSalaries == {1100000}
RaceValues == {3, 5}
RaceEarlierRows ==
  {<<>>, <<[id |-> 1, type |-> "GROOMING", count |-> 2, inputValue |-> 0,
            rate |-> 7500, amount |-> 15000]>>}
RaceBatches ==
  {<<[type |-> "GROOMING", count |-> 4, inputValue |-> 0, rate |-> None]>>,
   <<[type |-> "CBC", count |-> 2, inputValue |-> 0, rate |-> None]>>}
RacePairs ==
  {<<Request("distribute", 1, <<>>), Request("distribute", 1, <<>>)>>}
  \cup {<<Request("distribute", 1, <<>>), Request("bulkIncentives", 1, b)>> :
          b \in RaceBatches}

InitRace ==
  /\ branches = DefaultBranches
  /\ \E sal \in RaceSalaries :
       employees = <<EmployeeRow(1, "GROOMER", sal, 22, 8)>>
  /\ exclusions = {}
  /\ configs = <<>>
  /\ sheets = <<[branchId |-> 1, startDate |-> 1, endDate |-> 2,
                 isDistributed |-> FALSE]>>
  /\ \E v \in RaceValues :
       dailyInputs = {[sheetId |-> 1, date |-> 1, type |-> "GROOMING", value |-> v]}
  /\ deductions = <<<<>>>>
  /\ cashAdvances = <<>>
  /\ \E rows \in RaceEarlierRows :
       /\ incentives = <<rows>>
       /\ payrolls = <<recalculatePayrollTotals(PayrollPeriodRow(1, 1, 2, None),
                                                employees[1], rows, <<>>)>>
       /\ \E pair \in RacePairs :
            requests = [procs |-> pair, nextId |-> Len(rows) + 1]
  /\ lastOp = [op |-> "none", id |-> 0, again |-> FALSE, failed |-> FALSE]
  /\ call = [fn |-> "none"]

NextRace ==
  \E i \in 1..2 :
    \/ DistributeRead(i)
    \/ DistributeFindFirst(i)
    \/ DistributeWrite(i)
    \/ RecalculateRead(i)
    \/ RecalculateUpdate(i)
    \/ MarkDistributed(i)
    \/ BulkRead(i)
    \/ BulkDeleteMany(i)
    \/ BulkCreateMany(i)

SpecRace == InitRace /\ [][NextRace]_vars

\* the amounts request i writes to Incentive rows
WrittenAmounts(i) ==
  LET r == requests.procs[i]
  IN IF r.kind = "distribute"
     THEN {roundToTwo(d.amount, 1) : d \in Elements(r.distributions)}
     ELSE {row.amount : row \in Elements(incentiveData(r.data, 1))}

BothCompleted == \A i \in 1..2 : requests.procs[i].pc = "done"

\* C26: once two interleaved requests on the same period (two distribution
\* runs, or a distribution run and a bulk save) have both completed, every
\* period holds at most one Incentive row per type, every row's amount is
\* one that one of the two requests wrote, and the stored totalIncentives,
\* grossPay and netPay are the ones recomputed from the rows present.
C26_LastWriteWins ==
  BothCompleted =>
    \A p \in PayrollIds :
      /\ \A t \in IncentiveType : Cardinality(RowsOfType(incentives[p], t)) <= 1
      /\ \A j \in 1..Len(incentives[p]) :
           incentives[p][j].amount \in WrittenAmounts(1) \cup WrittenAmounts(2)
      /\ LET now == recalculatePayrollTotals(payrolls[p], employees[payrolls[p].employeeId],
                                             incentives[p], deductions[p])
         IN /\ payrolls[p].totalIncentives = now.totalIncentives
            /\ payrolls[p].grossPay = now.grossPay
            /\ payrolls[p].netPay = now.netPay

====
